---- MODULE Spec2Model ----
(***************************************************************************)
(* Model of the field encryption layer of Hush Line (scidsg/tip-line):     *)
(*   src/app.py                        encrypt_field / decrypt_field, the  *)
(*                                     User and Message encrypted columns, *)
(*                                     submit_message, encrypt_message     *)
(*   src/hushline/model/field_value.py add_padding, FieldValue             *)
(*                                                                         *)
(* A Python str is a sequence of Unicode code points, bytes a sequence of  *)
(* numbers 0..255.  None and a raised exception are one-element sequences  *)
(* holding a negative number, which no code point or byte is.              *)
(***************************************************************************)
EXTENDS Integers, Sequences, FiniteSets, Bags

VARIABLES
    users,         \* the "user" table: id -> row (app.py 145-162)
    field_values,  \* the "field_values" table: id -> row (field_value.py 36-45)
    secondary_users, \* the "secondary_user" table, a set of rows (app.py 246-252)
    messages,      \* the Message table, in insertion order (app.py 255-271)
    last,          \* the last call made and how it ended (history)
    codec,         \* one encrypt_field / decrypt_field call pair
    pad,           \* one add_padding call
    sessions,      \* the Flask session of each browser (app.py 364-377, 548-641)
    requests,      \* the requests in flight: the rows each has loaded and assigned
                   \* to and has not committed yet (app.py 746-752)
    checkouts,     \* the checkout sessions the payment provider holds
                   \* (app.py 1335-1345, 1361)
    invite_codes   \* the InviteCode table (app.py 284-288)

vars == <<users, secondary_users, field_values, messages, last, codec, pad, sessions, requests,
                 checkouts, invite_codes>>

----------------------------------------------------------------------------
(* Python values *)

None == << -1 >>
InvalidToken == << -2 >>       \* cryptography.fernet.InvalidToken
ValueErrorNoKey == << -3 >>    \* ValueError("User does not have a PGP key")
ValueErrorEncrypt == << -4 >>  \* ValueError("Failed to encrypt value")
AttributeError == << -5 >>     \* None has no startswith / encode
NoError == << -6 >>            \* the call returned
GPGError == << -7 >>           \* gpg --decrypt fails

Errors == {InvalidToken, ValueErrorNoKey, ValueErrorEncrypt, AttributeError}

IsStr(v) == \A i \in 1..Len(v) : v[i] >= 0

\* str.startswith
startswith(s, prefix) ==
    /\ Len(s) >= Len(prefix)
    /\ \A i \in 1..Len(prefix) : s[i] = prefix[i]

\* "-----BEGIN PGP MESSAGE-----" (field_value.py 74)
ArmorMarker ==
    <<45, 45, 45, 45, 45, 66, 69, 71, 73, 78, 32, 80, 71, 80, 32, 77, 69, 83,
      83, 65, 71, 69, 45, 45, 45, 45, 45>>

----------------------------------------------------------------------------
(* str.encode() and bytes.decode(): UTF-8 *)

utf8_char(c) ==
    IF c < 128 THEN <<c>>
    ELSE IF c < 2048 THEN <<192 + (c \div 64), 128 + (c % 64)>>
    ELSE <<224 + (c \div 4096), 128 + ((c \div 64) % 64), 128 + (c % 64)>>

RECURSIVE str_encode(_)
str_encode(s) ==
    IF \A i \in 1..Len(s) : s[i] < 128 THEN s
    ELSE IF Len(s) = 1 THEN utf8_char(s[1])
    ELSE LET h == Len(s) \div 2
         IN  str_encode(SubSeq(s, 1, h)) \o str_encode(SubSeq(s, h + 1, Len(s)))

IsLeadByte(b) == b < 128 \/ b >= 192

utf8_point(b) ==
    IF Len(b) = 1 THEN b[1]
    ELSE IF Len(b) = 2 THEN (b[1] - 192) * 64 + (b[2] - 128)
    ELSE (b[1] - 224) * 4096 + (b[2] - 128) * 64 + (b[3] - 128)

\* bytes.decode() of well-formed UTF-8, which is what decrypt_field decodes:
\* the authenticated plaintext of a token is the output of a str.encode().
RECURSIVE bytes_decode(_)
bytes_decode(b) ==
    IF \A i \in 1..Len(b) : b[i] < 128 THEN b
    ELSE LET leads == {i \in 2..Len(b) : IsLeadByte(b[i])}
         IN  IF leads = {} THEN <<utf8_point(b)>>
             ELSE LET h == Len(b) \div 2
                      after == {i \in leads : i > h}
                      m == IF after = {}
                           THEN CHOOSE i \in leads : \A j \in leads : j <= i
                           ELSE CHOOSE i \in after : \A j \in after : i <= j
                  IN  bytes_decode(SubSeq(b, 1, m - 1))
                          \o bytes_decode(SubSeq(b, m, Len(b)))

----------------------------------------------------------------------------
(* cryptography.fernet.Fernet, as far as the callers can tell: a token is  *)
(* text, carries a random IV, its ciphertext depends on key, IV and        *)
(* plaintext, and decrypt checks the token's shape and authentication tag  *)
(* under the key before it returns the plaintext.                          *)

ENCRYPTION_KEY == 7

\* the IVs os.urandom gives a token: in the codec runs, and in the table runs
CodecIVs == {0, 1, 2}
IVs == {0}

HexChar(n) == IF n < 10 THEN 48 + n ELSE 87 + n
HexVal(c) == IF c \in 48..57 THEN c - 48 ELSE IF c \in 97..102 THEN c - 87 ELSE -1

\* the token's bytes written as text, two characters a byte
TokenText(bytes) ==
    [i \in 1..(2 * Len(bytes)) |->
        IF i % 2 = 1 THEN HexChar(bytes[(i + 1) \div 2] \div 16)
        ELSE HexChar(bytes[i \div 2] % 16)]

TokenBytes(text) ==
    [i \in 1..(Len(text) \div 2) |-> HexVal(text[2 * i - 1]) * 16 + HexVal(text[2 * i])]

\* the sum of a sequence of naturals: the size of the bag holding i s[i]+1 times
SumSeq(s) ==
    IF Len(s) = 0 THEN 0
    ELSE BagCardinality([i \in 1..Len(s) |-> s[i] + 1]) - Len(s)

FernetTag(key, iv, cipher) == (key * 31 + iv + Len(cipher) + SumSeq(cipher)) % 256

fernet_encrypt(key, iv, data) ==
    LET cipher == [i \in 1..Len(data) |-> (data[i] + key + iv + i) % 256]
    IN  <<103>> \o TokenText(<<iv>> \o cipher \o <<FernetTag(key, iv, cipher)>>)

fernet_decrypt(key, token) ==
    IF \/ Len(token) < 5
       \/ token[1] # 103
       \/ Len(token) % 2 # 1
       \/ \E i \in 2..Len(token) : HexVal(token[i]) < 0
    THEN InvalidToken
    ELSE LET bytes == TokenBytes(SubSeq(token, 2, Len(token)))
             iv == bytes[1]
             cipher == SubSeq(bytes, 2, Len(bytes) - 1)
         IN  IF bytes[Len(bytes)] # FernetTag(key, iv, cipher) THEN InvalidToken
             ELSE [i \in 1..Len(cipher) |-> (cipher[i] - key - iv - i) % 256]

----------------------------------------------------------------------------
(* app.py 71-80 *)

\* how many times a call of encrypt_field or decrypt_field runs the cipher:
\* app.py 72-73, 78-79 return before the Fernet object is made
fernet_calls(data) == IF data = None THEN 0 ELSE 1

\* encrypt_field without lines 72-73: None.encode() raises
encrypt_field_strict(data, iv) ==
    IF data = None THEN AttributeError
    ELSE fernet_encrypt(ENCRYPTION_KEY, iv, str_encode(data))

encrypt_field(data, iv) ==
    IF data = None THEN None
    ELSE fernet_encrypt(ENCRYPTION_KEY, iv, str_encode(data))

\* decrypt_field without the final .decode(): returns the UTF-8 bytes
decrypt_field_raw(data) ==
    IF data = None THEN None
    ELSE fernet_decrypt(ENCRYPTION_KEY, str_encode(data))

\* decrypt_field with the InvalidToken caught and None returned
decrypt_field_swallow(data) ==
    IF data = None THEN None
    ELSE LET plain == fernet_decrypt(ENCRYPTION_KEY, str_encode(data))
         IN  IF plain = InvalidToken THEN None ELSE bytes_decode(plain)

decrypt_field(data) ==
    IF data = None THEN None
    ELSE LET plain == fernet_decrypt(ENCRYPTION_KEY, str_encode(data))
         IN  IF plain = InvalidToken THEN InvalidToken ELSE bytes_decode(plain)

----------------------------------------------------------------------------
(* field_value.py 17-33: add_padding.  secrets.choice is a random source:  *)
(* rnd is the sequence of words it returns, read cyclically.               *)

\* "\n\n(Random text generated by Hush Line: lorum ipsum " (field_value.py 23)
PadOpen ==
    <<10, 10, 40, 82, 97, 110, 100, 111, 109, 32, 116, 101, 120, 116, 32, 103,
      101, 110, 101, 114, 97, 116, 101, 100, 32, 98, 121, 32, 72, 117, 115,
      104, 32, 76, 105, 110, 101, 58, 32, 108, 111, 114, 117, 109, 32, 105,
      112, 115, 117, 109, 32>>

\* hushline.crypto.DICEWARE_WORDS: "a", "ox", "cat"
DICEWARE_WORDS == {<<97>>, <<111, 120>>, <<99, 97, 116>>}

BLOCK_SIZE == 512

choice(rnd, k) == rnd[((k - 1) % Len(rnd)) + 1]

\* field_value.py 26, with the modulo dropped when it is zero
target_len_zero(value, block_size) ==
    (block_size - (Len(value) % block_size)) % block_size

\* field_value.py 26; value already ends with PadOpen
target_len(value, block_size) == block_size - (Len(value) % block_size)

\* field_value.py 28-29, one turn of the while loop: the state is the padding
\* so far and the number k of the next secrets.choice call
padding_step(st, target, rnd) ==
    IF Len(st.padding) < target
    THEN [padding |-> st.padding \o choice(rnd, st.k) \o <<32>>, k |-> st.k + 1]
    ELSE st

\* n turns of the loop, by halves
RECURSIVE padding_turns(_, _, _, _)
padding_turns(st, n, target, rnd) ==
    IF n = 0 \/ Len(st.padding) >= target THEN st
    ELSE IF n = 1 THEN padding_step(st, target, rnd)
    ELSE padding_turns(padding_turns(st, n \div 2, target, rnd),
                       n - (n \div 2), target, rnd)

\* field_value.py 27-29: every turn adds at least the space, so the loop ends
\* within target turns
padding_loop(padding, target, rnd, k) ==
    padding_turns([padding |-> padding, k |-> k], target, target, rnd).padding

\* the padding of add_padding, before the closing ")"
padding_words(value, block_size, rnd) ==
    padding_loop(<<>>, target_len(value \o PadOpen, block_size), rnd, 1)

\* add_padding that returns the value unpadded
add_padding_none(value, block_size, rnd) == value

\* add_padding without line 30, the closing ")"
add_padding_open(value, block_size, rnd) ==
    value \o PadOpen \o padding_words(value, block_size, rnd)

add_padding(value, block_size, rnd) ==
    value \o PadOpen \o padding_words(value, block_size, rnd) \o <<41>>

\* the number of words in a padding: each word is followed by one space
WordCount(padding) == Cardinality({i \in 1..Len(padding) : padding[i] = 32})

----------------------------------------------------------------------------
(* gnupg: gpg.encrypt writes an ASCII-armored message that only the holder *)
(* of the recipient's private key can open.                                *)

RecipientNum(recipient) == SumSeq(recipient) % 256

\* str(encrypted_data) of a gpg.encrypt that ended ok: the armor header, a
\* blank line, then the recipient's key id and the ciphertext
gpg_armor(data, recipient) ==
    LET k == RecipientNum(recipient)
    IN  ArmorMarker \o <<10, 10>>
            \o TokenText(<<k>> \o [i \in 1..Len(data) |-> (data[i] + k) % 256])

\* whether text has the shape of an armored message
IsArmored(text) ==
    /\ IsStr(text)
    /\ startswith(text, ArmorMarker \o <<10, 10>>)
    /\ Len(text) >= Len(ArmorMarker) + 4
    /\ (Len(text) - Len(ArmorMarker)) % 2 = 0
    /\ \A i \in (Len(ArmorMarker) + 3)..Len(text) : HexVal(text[i]) >= 0

\* what the holder of the recipient's private key reads from text: GPGError
\* when it is no armored message or was encrypted to another key
gpg_open(armored, recipient) ==
    IF ~IsArmored(armored) \/ recipient = None \/ Len(recipient) = 0 THEN GPGError
    ELSE LET body == TokenBytes(SubSeq(armored, Len(ArmorMarker) + 3, Len(armored)))
             k == RecipientNum(recipient)
         IN  IF body[1] # k THEN GPGError
             ELSE bytes_decode([i \in 1..(Len(body) - 1) |-> (body[i + 1] - k) % 256])

\* app.py 1083-1102: None when gpg.encrypt is not ok or raises
\* gpg_ok: whether gpg.encrypt ends ok; it cannot without a recipient
encrypt_message(message, recipient, gpg_ok) ==
    IF gpg_ok /\ recipient # None /\ Len(recipient) > 0
    THEN gpg_armor(str_encode(message), recipient)
    ELSE None

----------------------------------------------------------------------------
(* The tables *)

UserIds == {1}
FieldIds == {1}

\* PGP public keys, as the text a user pastes: "K1", "K2"
PGPKeys == {<<75, 49>>, <<75, 50>>}

\* "alice" (app.py 148)
Alice == <<97, 108, 105, 99, 101>>

\* the browsers that hold a session cookie
SessionIds == {1}

\* flask.session with nothing in it: user_id 0 and None stand for absent keys
NoSession ==
    [user_id |-> 0, username |-> None, is_authenticated |-> FALSE,
     twofa_required |-> FALSE, twofa_verified |-> FALSE,
     temp_totp_secret |-> None, is_setting_up_2fa |-> FALSE,
     primary_username |-> None]

\* the Stripe customer id of a user: "cus_" and the user's number
StripeCustomer(u) == <<99, 117, 115, 95, 48 + u>>

\* no FieldValue with this id
NoRow == [id |-> 0, owner |-> 0, encrypted |-> FALSE, _value |-> None]

\* a key kept from an earlier request instead of the stored one: "K1"
User_pgp_key_cached(user) == <<75, 49>>

\* app.py 219-221
User_pgp_key(user) == decrypt_field(user._pgp_key)

\* Python truth of a str or None
truthy(v) == v # None /\ Len(v) > 0

----------------------------------------------------------------------------
(* field_value.py 60-98: FieldValue.value *)

\* field_value.py 60-66
FieldValue_value(self) == decrypt_field(self._value)

\* A list of str is the sequence of its elements, each followed by ListEnd,
\* after ListHead: [] is <<-10>>, ["a", ""] is <<-10, 97, -11, -11>>
ListHead == -10
ListEnd == -11

RECURSIVE ListOf(_)
ListOf(elems) ==
    IF Len(elems) = 0 THEN <<ListHead>>
    ELSE <<ListHead>> \o elems[1] \o <<ListEnd>>
             \o SubSeq(ListOf(Tail(elems)), 2, Len(ListOf(Tail(elems))))

\* field_value.py 71: isinstance(value, list)
isinstance_list(value) == Len(value) >= 1 /\ value[1] = ListHead

\* "".join(list): the elements with nothing between them
RECURSIVE str_concat(_, _)
str_concat(sep, list) ==
    IF Len(list) <= 1 THEN <<>>
    ELSE LET t == CHOOSE i \in 2..Len(list) :
                      list[i] = ListEnd /\ \A j \in 2..(i - 1) : list[j] # ListEnd
         IN  SubSeq(list, 2, t - 1)
                 \o str_concat(sep, <<ListHead>> \o SubSeq(list, t + 1, Len(list)))

\* sep.join(list)
RECURSIVE str_join(_, _)
str_join(sep, list) ==
    IF Len(list) <= 1 THEN <<>>
    ELSE LET t == CHOOSE i \in 2..Len(list) :
                      list[i] = ListEnd /\ \A j \in 2..(i - 1) : list[j] # ListEnd
             rest == <<ListHead>> \o SubSeq(list, t + 1, Len(list))
         IN  IF Len(rest) = 1 THEN SubSeq(list, 2, t - 1)
             ELSE SubSeq(list, 2, t - 1) \o sep \o str_join(sep, rest)

\* field_value.py 70-72: the value after the list test
joined(value) ==
    IF isinstance_list(value) THEN str_join(<<10>>, value) ELSE value

\* field_value.py 74 without the armor test: every value of an encrypted field
\* is padded and PGP-encrypted
needs_pgp_always(self, value) == self.encrypted

\* field_value.py 74 without the flag: PGP for every value without the marker
needs_pgp_unflagged(self, value) == ~startswith(value, ArmorMarker)

\* field_value.py 74
needs_pgp(self, value) == self.encrypted /\ ~startswith(value, ArmorMarker)

\* field_value.py 82 without the test
key_missing_never(pgp_key) == FALSE

\* field_value.py 82: not pgp_key
key_missing(pgp_key) == ~truthy(pgp_key)

\* field_value.py 85-88 storing the padded text when encryption fails
pgp_result_fallback(padded_value, encrypted_value) ==
    IF truthy(encrypted_value) THEN encrypted_value ELSE padded_value

\* field_value.py 85-88: the value to save, or the error raised
pgp_result(padded_value, encrypted_value) ==
    IF truthy(encrypted_value) THEN encrypted_value ELSE ValueErrorEncrypt

\* field_value.py 74-91: val_to_save, or the error raised; self.encrypted and
\* value.startswith(...) raises AttributeError for None on an encrypted field
val_to_save(self, value, pgp_key, rnd, gpg_ok) ==
    IF self.encrypted /\ value = None THEN AttributeError
    ELSE IF value # None /\ needs_pgp(self, value)
    THEN LET padded_value == add_padding(value, BLOCK_SIZE, rnd)
         IN  IF key_missing(pgp_key) THEN ValueErrorNoKey
             ELSE pgp_result(padded_value,
                             encrypt_message(padded_value, pgp_key, gpg_ok))
    ELSE value

\* field_value.py 84: whether the setter gets as far as encrypt_message
calls_encrypt_message(self, value, pgp_key) ==
    /\ value # None
    /\ needs_pgp(self, value)
    /\ ~key_missing(pgp_key)

\* field_value.py 94-96 without the else branch: the new _value is whatever
\* encrypt_field returns
stored_value_null(to_save, iv) == encrypt_field(to_save, iv)

\* field_value.py 93-98: the new _value
stored_value(to_save, iv) ==
    LET val == encrypt_field(to_save, iv)
    IN  IF val # None THEN val ELSE <<>>

\* field_value.py 68-98, self.value = value: the error raised (NoError when the
\* setter returns), the row, and how encrypt_message ended
value_set(self, given, iv, rnd, gpg_ok) ==
    LET value == joined(given)
        pgp_key == User_pgp_key(users[self.owner])
        to_save == val_to_save(self, value, pgp_key, rnd, gpg_ok)
        gpg == IF ~calls_encrypt_message(self, value, pgp_key) THEN "none"
               ELSE IF gpg_ok THEN "ok" ELSE "failed"
    IN  IF to_save \in Errors
        THEN [raised |-> to_save, row |-> self, gpg |-> gpg]
        ELSE [raised |-> NoError, gpg |-> gpg,
              row |-> [self EXCEPT !._value = stored_value(to_save, iv)]]

----------------------------------------------------------------------------
(* app.py 893-1040: submit_message *)

\* Length(max=2000) of MessageForm.content (app.py 297)
MaxContent == 2000

\* the Message rows the model lets the table hold
MaxMessages == 1

\* the address in the first uid of an imported key: "<key>@x"
KeyEmail(pgp_key) == pgp_key \o <<64, 120>>

\* app.py 893-915: None when the import fails or raises
get_email_from_pgp_key(pgp_key, import_ok) ==
    IF import_ok THEN KeyEmail(pgp_key) ELSE None

\* app.py 294-299, 957: form.validate_on_submit()
MessageForm_validate(submitted, content) ==
    submitted /\ Len(content) > 0 /\ Len(content) <= MaxContent

\* a lookup that lets a secondary username through whether its owner has
\* paid or not
resolve_username_ungated(username) ==
    LET primary == {u \in DOMAIN users : users[u].primary_username = username}
        secondary == {s \in secondary_users : s.username = username}
    IN  IF primary # {}
        THEN [found |-> TRUE, user |-> CHOOSE u \in primary : TRUE, primary |-> TRUE,
              secondary_user_id |-> 0]
        ELSE IF secondary # {}
        THEN LET s == CHOOSE s \in secondary : TRUE
             IN  [found |-> TRUE, user |-> s.user_id,
                  primary |-> FALSE, secondary_user_id |-> s.id]
        ELSE [found |-> FALSE, user |-> 0, primary |-> FALSE, secondary_user_id |-> 0]

\* app.py 927-955: the user and secondary user a username resolves to, and
\* whether the handler goes on; found is FALSE for "User not found" and for
\* the premium redirect
resolve_username(username) ==
    LET primary == {u \in DOMAIN users : users[u].primary_username = username}
        secondary == {s \in secondary_users : s.username = username}
    IN  IF primary # {}
        THEN [found |-> TRUE, user |-> CHOOSE u \in primary : TRUE, primary |-> TRUE,
              secondary_user_id |-> 0]
        ELSE IF secondary # {}
        THEN LET s == CHOOSE s \in secondary : TRUE
             IN  [found |-> users[s.user_id].has_paid, user |-> s.user_id,
                  primary |-> FALSE, secondary_user_id |-> s.id]
        ELSE [found |-> FALSE, user |-> 0, primary |-> FALSE, secondary_user_id |-> 0]

\* app.py 962-974 letting the message through in clear when encryption fails
email_content_fallback(content, pgp_key, import_ok, gpg_ok) ==
    IF ~truthy(pgp_key) \/ ~import_ok \/ ~gpg_ok THEN content
    ELSE encrypt_message(content, KeyEmail(pgp_key), gpg_ok)

\* app.py 959-974: email_content, or None when the handler redirects
email_content(content, pgp_key, import_ok, gpg_ok) ==
    IF ~truthy(pgp_key) THEN content
    ELSE LET pgp_email == get_email_from_pgp_key(pgp_key, import_ok)
         IN  IF ~truthy(pgp_email) THEN None
             ELSE LET encrypted_content == encrypt_message(content, pgp_email, gpg_ok)
                  IN  IF truthy(encrypted_content) THEN encrypted_content ELSE None

\* app.py 989-997
smtp_configured_email_only(user) == truthy(decrypt_field(user._email))

smtp_configured(user) ==
    /\ truthy(decrypt_field(user._email))
    /\ truthy(decrypt_field(user._smtp_server))
    /\ user.smtp_port # 0
    /\ truthy(decrypt_field(user._smtp_username))
    /\ truthy(decrypt_field(user._smtp_password))

----------------------------------------------------------------------------
(* Inputs *)

\* "", "hello", "é€", the marker, the marker followed by " hi",
\* the marker without its last dash
StrInputs ==
    { <<>>,
      <<104, 101, 108, 108, 111>>,
      <<233, 8364>>,
      ArmorMarker,
      ArmorMarker \o <<32, 104, 105>>,
      SubSeq(ArmorMarker, 1, Len(ArmorMarker) - 1) }

ValueInputs == StrInputs \cup {None}

\* what secrets.choice returns during the add_padding of a FieldValue:
\* "cat", "a", "ox", "cat", ...
RndInputs == { <<<<99, 97, 116>>, <<97>>, <<111, 120>>>> }

\* what a user's pgp_key is set to: removed, the empty form field, a key
KeyInputs == {None, <<>>} \cup PGPKeys

\* the usernames of requests: "alice", "nobody"
UsernameInputs == {Alice, <<110, 111, 98, 111, 100, 121>>}

\* message form contents: "", "hi", the marker, 2001 characters
ContentInputs ==
    {<<>>, <<104, 105>>, ArmorMarker, [i \in 1..(MaxContent + 1) |-> 120]}

\* the call last made: op, the FieldValue and the value it was given, the flag
\* of that FieldValue, the error raised, how the PGP encryption ended ("none"
\* when there was none, "no_identity" when no address was found in the key),
\* the value returned, whether a Message was stored, how the email ended, the
\* column a property setter wrote and the user it wrote it for
\* app.py 746-751: the fields of SMTPSettingsForm, none filled in
NoForm ==
    [email |-> None, smtp_server |-> None, smtp_port |-> 0,
     smtp_username |-> None, smtp_password |-> None]

\* app.py 1393-1399: a request to /stripe-webhook: whether the payload parses,
\* whether the signature is valid, and the type and the customer of the event;
\* has_customer is FALSE for an event object without the key "customer"
NoEvent ==
    [valid_payload |-> FALSE, valid_signature |-> FALSE, type |-> "none",
     has_customer |-> FALSE, customer |-> None]

NoCall ==
    [op |-> "none", f |-> 0, value |-> None, encrypted |-> FALSE,
     raised |-> NoError, gpg |-> "none", result |-> None, stored |-> FALSE,
     email |-> "none", column |-> "none", user |-> 0,
     request |-> 0, session |-> 0, form |-> NoForm, stale |-> FALSE,
     passed |-> FALSE, code |-> 0, shown |-> {}, event |-> NoEvent]

----------------------------------------------------------------------------
(* Operations *)

\* field_value.py 47-58: FieldValue(field_definition, message, value, encrypted)
\* for a message of user owner; the row exists when __init__ returns
FieldValue_init(f, owner, value, encrypted, iv, rnd, gpg_ok) ==
    /\ field_values[f] = NoRow
    /\ LET self == [id |-> f, owner |-> owner, encrypted |-> encrypted,
                    _value |-> None]
           new == value_set(self, value, iv, rnd, gpg_ok)
       IN  /\ field_values' =
                IF new.raised # NoError THEN field_values
                ELSE [field_values EXCEPT ![f] = new.row]
           /\ last' = [NoCall EXCEPT !.op = "init", !.f = f, !.value = value,
                          !.encrypted = encrypted, !.raised = new.raised,
                          !.gpg = new.gpg]
    /\ UNCHANGED <<users, secondary_users, messages, codec, pad, sessions, requests,
                 checkouts, invite_codes>>

\* field_value.py 68-98: field.value = value
FieldValue_value_set(f, value, iv, rnd, gpg_ok) ==
    /\ field_values[f] # NoRow
    /\ LET self == field_values[f]
           new == value_set(self, value, iv, rnd, gpg_ok)
       IN  /\ field_values' = [field_values EXCEPT ![f] = new.row]
           /\ last' = [NoCall EXCEPT !.op = "set", !.f = f, !.value = value,
                          !.encrypted = self.encrypted, !.raised = new.raised,
                          !.gpg = new.gpg]
    /\ UNCHANGED <<users, secondary_users, messages, codec, pad, sessions, requests,
                 checkouts, invite_codes>>

\* field_value.py 60-66: field.value
FieldValue_value_get(f) ==
    /\ field_values[f] # NoRow
    /\ LET self == field_values[f]
           got == FieldValue_value(self)
       IN  last' = [NoCall EXCEPT !.op = "get", !.f = f,
                       !.encrypted = self.encrypted,
                       !.raised = IF got \in Errors THEN got ELSE NoError,
                       !.result = IF got \in Errors THEN None ELSE got]
    /\ UNCHANGED <<users, secondary_users, field_values, messages, codec, pad, sessions, requests,
                 checkouts, invite_codes>>

\* field_value.py 60-98: field.value = field.value
FieldValue_value_resave(f) ==
    /\ field_values[f] # NoRow
    /\ LET self == field_values[f]
           got == FieldValue_value(self)
       IN  \E iv \in IVs, rnd \in RndInputs, gpg_ok \in BOOLEAN :
             LET new == IF got \in Errors
                        THEN [raised |-> got, row |-> self, gpg |-> "none"]
                        ELSE value_set(self, got, iv, rnd, gpg_ok)
             IN  /\ field_values' = [field_values EXCEPT ![f] = new.row]
                 /\ last' = [NoCall EXCEPT !.op = "resave", !.f = f,
                                !.value = IF got \in Errors THEN None ELSE got,
                                !.encrypted = self.encrypted,
                                !.raised = new.raised, !.gpg = new.gpg]
    /\ UNCHANGED <<users, secondary_users, messages, codec, pad, sessions, requests,
                 checkouts, invite_codes>>

\* app.py 223-228: user.pgp_key = value
User_pgp_key_set(u, value, iv) ==
    /\ users' = [users EXCEPT ![u]._pgp_key =
                    IF value = None THEN None ELSE encrypt_field(value, iv)]
    /\ last' = [NoCall EXCEPT !.op = "set_pgp_key", !.value = value,
                              !.column = "pgp_key", !.user = u]
    /\ UNCHANGED <<secondary_users, field_values, messages, codec, pad, sessions, requests,
                 checkouts, invite_codes>>

\* app.py 918-1011: a request to /submit_message/<username>.  smtp_ok: whether
\* send_email (app.py 1014-1040) delivers
submit_message(username, submitted, content, import_ok, gpg_ok, smtp_ok, iv) ==
    /\ Len(messages) < MaxMessages
    /\ LET who == resolve_username(username)
           call == [NoCall EXCEPT !.op = "submit_message", !.value = content]
       IN  IF ~who.found \/ ~MessageForm_validate(submitted, content)
           THEN /\ last' = call
                /\ UNCHANGED messages
           ELSE LET user == users[who.user]
                    pgp_key == User_pgp_key(user)
                    body == email_content(content, pgp_key, import_ok, gpg_ok)
                    gpg == IF ~truthy(pgp_key) THEN "none"
                           ELSE IF ~truthy(get_email_from_pgp_key(pgp_key, import_ok))
                           THEN "no_identity"
                           ELSE IF gpg_ok THEN "ok" ELSE "failed"
                IN  IF body = None
                    THEN /\ last' = [call EXCEPT !.gpg = gpg]
                         /\ UNCHANGED messages
                    ELSE /\ messages' = Append(messages,
                                [id |-> Len(messages) + 1,
                                 _content |-> encrypt_field(body, iv),
                                 user_id |-> who.user,
                                 secondary_user_id |-> who.secondary_user_id])
                         /\ last' = [call EXCEPT !.gpg = gpg, !.stored = TRUE,
                                        !.email = IF ~smtp_configured(user) THEN "none"
                                                  ELSE IF smtp_ok THEN "sent"
                                                  ELSE "failed"]
    /\ UNCHANGED <<users, secondary_users, field_values, codec, pad, sessions, requests,
                 checkouts, invite_codes>>

----------------------------------------------------------------------------
(* The symmetric codec alone: encrypt_field of a drawn input, then         *)
(* decrypt_field of what it returned.                                      *)

\* the longest string drawn over CodecChars
MaxLen == 3

\* "a", "é", "€"
CodecChars == {97, 233, 8364}

CodecInputs ==
    UNION {[1..n -> CodecChars] : n \in 0..MaxLen} \cup StrInputs \cup {None}

CodecIdle == [pc |-> "idle", data |-> None, token |-> None, out |-> None, calls |-> 0]

\* app.py 71-74; the Fernet IV is drawn as the call is made
CodecEncrypt(iv) ==
    /\ codec.pc = "input"
    /\ codec' = [codec EXCEPT !.pc = "encrypted",
                              !.token = encrypt_field(codec.data, iv),
                              !.calls = codec.calls + fernet_calls(codec.data)]
    /\ UNCHANGED <<users, secondary_users, field_values, messages, last, pad, sessions, requests,
                 checkouts, invite_codes>>

\* app.py 77-80
CodecDecrypt ==
    /\ codec.pc = "encrypted"
    /\ codec' = [codec EXCEPT !.pc = "decrypted", !.out = decrypt_field(codec.token),
                              !.calls = codec.calls + fernet_calls(codec.token)]
    /\ UNCHANGED <<users, secondary_users, field_values, messages, last, pad, sessions, requests,
                 checkouts, invite_codes>>

----------------------------------------------------------------------------
(* add_padding alone *)

\* the largest block size, the longest value and the longest word sequence drawn
MaxBlock == 6
MaxValueLen == 5
MaxRnd == 3

BlockInputs == 1..MaxBlock \cup {BLOCK_SIZE}
PadValueInputs == {[i \in 1..n |-> 120] : n \in 0..MaxValueLen}
PadRndInputs == UNION {[1..n -> DICEWARE_WORDS] : n \in 1..MaxRnd}

PadIdle ==
    [pc |-> "idle", value |-> <<>>, block_size |-> 1, rnd |-> <<>>,
     target_len |-> 0, padding |-> <<>>, result |-> <<>>]

\* field_value.py 17-33
PadCall ==
    /\ pad.pc = "input"
    /\ pad' = [pad EXCEPT
                 !.pc = "done",
                 !.target_len = target_len(pad.value \o PadOpen, pad.block_size),
                 !.padding = padding_words(pad.value, pad.block_size, pad.rnd),
                 !.result = add_padding(pad.value, pad.block_size, pad.rnd)]
    /\ UNCHANGED <<users, secondary_users, field_values, messages, last, codec, sessions, requests,
                 checkouts, invite_codes>>

----------------------------------------------------------------------------
(* Specifications *)

\* app.py 145-161: a User as register leaves it, before any setter
NewUser(u) ==
    [id |-> u, primary_username |-> Alice, display_name |-> None,
     _password_hash |-> None, _totp_secret |-> None,
     _pgp_key |-> None, _email |-> None, _smtp_server |-> None,
     smtp_port |-> 0, _smtp_username |-> None,
     _smtp_password |-> None, has_paid |-> FALSE,
     stripe_customer_id |-> None, stripe_subscription_id |-> None,
     is_verified |-> FALSE]

\* the invite codes
InviteIds == {1, 2}

\* app.py 284-288: the InviteCode table as the invite tool leaves it: code 1
\* is good, code 2 has passed its expiration_date
NewInviteCodes ==
    [c \in InviteIds |-> [id |-> c, used |-> FALSE, expired |-> c = 2]]

\* the workers that serve requests at the same time
RequestIds == {1, 2}

\* a worker between requests: nothing loaded, nothing assigned
NoRequest ==
    [pc |-> "idle", kind |-> "none", target |-> 0, form |-> NoForm,
     value |-> None, stale |-> FALSE, user_row |-> NewUser(0), field_row |-> NoRow]

InitTables ==
    /\ users = [u \in UserIds |-> NewUser(u)]
    /\ secondary_users = {}
    /\ field_values = [f \in FieldIds |-> NoRow]
    /\ messages = <<>>
    /\ last = NoCall
    /\ sessions = [s \in SessionIds |-> NoSession]
    /\ requests = [r \in RequestIds |-> NoRequest]
    /\ checkouts = {}
    /\ invite_codes = NewInviteCodes

Init == InitTables /\ codec = CodecIdle /\ pad = PadIdle

\* FieldValue and the key of its owner
Next ==
    \/ \E f \in FieldIds, owner \in UserIds, value \in ValueInputs,
          encrypted \in BOOLEAN, iv \in IVs, rnd \in RndInputs, gpg_ok \in BOOLEAN :
            FieldValue_init(f, owner, value, encrypted, iv, rnd, gpg_ok)
    \/ \E f \in FieldIds, value \in ValueInputs, iv \in IVs, rnd \in RndInputs,
          gpg_ok \in BOOLEAN :
            FieldValue_value_set(f, value, iv, rnd, gpg_ok)
    \/ \E f \in FieldIds : FieldValue_value_get(f)
    \/ \E f \in FieldIds : FieldValue_value_resave(f)
    \/ \E u \in UserIds, value \in KeyInputs, iv \in IVs : User_pgp_key_set(u, value, iv)

Spec == Init /\ [][Next]_vars

\* the writes that demand PGP encryption: a FieldValue given "hello", and a
\* message submitted to a user
HelloInputs == {<<104, 101, 108, 108, 111>>}

NextWrite ==
    \/ \E f \in FieldIds, owner \in UserIds, value \in HelloInputs,
          encrypted \in BOOLEAN, iv \in IVs, rnd \in RndInputs, gpg_ok \in BOOLEAN :
            FieldValue_init(f, owner, value, encrypted, iv, rnd, gpg_ok)
    \/ \E f \in FieldIds, value \in HelloInputs, iv \in IVs, rnd \in RndInputs,
          gpg_ok \in BOOLEAN :
            FieldValue_value_set(f, value, iv, rnd, gpg_ok)
    \/ \E u \in UserIds, value \in KeyInputs, iv \in IVs : User_pgp_key_set(u, value, iv)
    \/ \E username \in UsernameInputs, submitted \in BOOLEAN, content \in ContentInputs,
          import_ok \in BOOLEAN, gpg_ok \in BOOLEAN, smtp_ok \in BOOLEAN, iv \in IVs :
            submit_message(username, submitted, content, import_ok, gpg_ok, smtp_ok, iv)

SpecWrite == Init /\ [][NextWrite]_vars

InitCodec ==
    /\ InitTables
    /\ codec \in {[CodecIdle EXCEPT !.pc = "input", !.data = data] : data \in CodecInputs}
    /\ pad = PadIdle

NextCodec ==
    \/ \E iv \in CodecIVs : CodecEncrypt(iv)
    \/ CodecDecrypt

SpecCodec == InitCodec /\ [][NextCodec]_vars

InitPad ==
    /\ InitTables
    /\ codec = CodecIdle
    /\ pad \in {[PadIdle EXCEPT !.pc = "input", !.value = value,
                                !.block_size = block_size, !.rnd = rnd] :
                   value \in PadValueInputs, block_size \in BlockInputs,
                   rnd \in PadRndInputs}

NextPad == PadCall

SpecPad == InitPad /\ [][NextPad]_vars

----------------------------------------------------------------------------
(* Properties of add_padding (SpecPad) *)

\* the longest word of the dictionary
MaxWordLen == CHOOSE n \in 0..64 :
    /\ \E w \in DICEWARE_WORDS : Len(w) = n
    /\ \A w \in DICEWARE_WORDS : Len(w) <= n

\* the length of the value once line 23 has appended the opening text
OpenedLen == Len(pad.value) + Len(PadOpen)

\* the smallest multiple of the block size above OpenedLen
NextMultiple == OpenedLen + (pad.block_size - (OpenedLen % pad.block_size))

C6_target_never_zero ==
    pad.pc = "done" =>
        /\ pad.target_len \in 1..pad.block_size
        /\ (OpenedLen % pad.block_size = 0 => pad.target_len = pad.block_size)
        /\ WordCount(pad.padding) >= 1
        /\ Len(pad.padding) >= pad.target_len
        /\ pad.result = pad.value \o PadOpen \o pad.padding \o <<41>>

\* a value that ends on a block boundary of a block larger than one
C6_witness ==
    /\ pad.pc = "done"
    /\ pad.block_size > 1
    /\ OpenedLen % pad.block_size = 0
    /\ WordCount(pad.padding) >= 1

----------------------------------------------------------------------------
(* Properties of encrypt_field and decrypt_field (SpecCodec) *)

\* C7: decrypt_field(encrypt_field(s)) = s for every string s, under the one
\* key of the process and whatever IV the token got.
C7_round_trip ==
    (codec.pc = "decrypted" /\ codec.data # None) => codec.out = codec.data

\* the round trip of a string outside ASCII: the two characters e-acute, euro
C7_witness ==
    /\ codec.pc = "decrypted"
    /\ codec.data = <<233, 8364>>
    /\ codec.out = codec.data
    /\ codec.token # codec.data

\* C8: encrypt_field(None) is None and decrypt_field(None) is None; neither
\* raises and neither runs the cipher.
C8_none_is_none ==
    codec.data = None =>
        /\ codec.pc \in {"encrypted", "decrypted"} => codec.token = None
        /\ codec.pc = "decrypted" => codec.out = None
        /\ codec.calls = 0

\* None went through encrypt_field and then through decrypt_field
C8_witness ==
    /\ codec.pc = "decrypted"
    /\ codec.data = None
    /\ codec.token = None
    /\ codec.out = None

----------------------------------------------------------------------------
(* Properties of FieldValue (Spec) *)

\* the FieldValue of the last call, and the key of its owner
LastRow == field_values[last.f]
OwnerKey(row) == User_pgp_key(users[row.owner])

\* text is p, the opening text, one or more words each followed by a space,
\* and the closing ")"
IsPaddedFrom(text, p) ==
    LET n == Len(p) + Len(PadOpen)
    IN  /\ IsStr(text)
        /\ Len(text) >= n + 3
        /\ startswith(text, p \o PadOpen)
        /\ text[Len(text)] = 41
        /\ text[Len(text) - 1] = 32
        /\ text[n + 1] # 32
        /\ \A i \in (n + 1)..(Len(text) - 1) :
              \/ text[i] \in 97..122
              \/ text[i] = 32 /\ text[i - 1] # 32

\* text is what gpg.encrypt writes for some message to the holder of pgp_key
IsPGPOutput(text, pgp_key) ==
    /\ truthy(pgp_key)
    /\ gpg_open(text, pgp_key) # GPGError

\* the FieldValues that have encrypted=true and hold a stored value
EncryptedRows ==
    {f \in FieldIds : /\ field_values[f] # NoRow
                      /\ field_values[f].encrypted
                      /\ truthy(field_values[f]._value)}

\* C1 as the specification states it: the decoded value of every FieldValue
\* with encrypted=true is the output of PGP encryption under the public key
\* of the owning user.
C1_always_pgp_output ==
    \A f \in EncryptedRows :
        IsPGPOutput(FieldValue_value(field_values[f]), OwnerKey(field_values[f]))

\* C1: the decoded value of every FieldValue with encrypted=true begins with
\* the armor marker; a write stores either the caller's text as given, when
\* that text begins with the marker, or the PGP encryption of the padded text
\* under the key the owner has at the time of the write.
C1_pgp_or_marked ==
    \A f \in EncryptedRows :
        LET row == field_values[f]
            stored == FieldValue_value(row)
        IN  /\ startswith(stored, ArmorMarker)
            /\ (last.op \in {"init", "set"} /\ last.f = f /\ last.raised = NoError) =>
                  IF startswith(last.value, ArmorMarker)
                  THEN stored = last.value
                  ELSE /\ IsPGPOutput(stored, OwnerKey(row))
                       /\ IsPaddedFrom(gpg_open(stored, OwnerKey(row)), last.value)

\* "hello" was encrypted under a key, and the owner has since changed keys
C1_witness ==
    /\ EncryptedRows # {}
    /\ last.op = "set_pgp_key"
    /\ \E f \in EncryptedRows, k \in PGPKeys :
          /\ IsPGPOutput(FieldValue_value(field_values[f]), k)
          /\ OwnerKey(field_values[f]) # k

\* the call just made set a string without the marker on an encrypted
\* FieldValue whose owner has no key
SetWithoutKey ==
    /\ last.op = "set"
    /\ last.encrypted
    /\ IsStr(last.value)
    /\ ~startswith(last.value, ArmorMarker)
    /\ ~truthy(OwnerKey(LastRow))

\* C2: setting a value without the marker on a FieldValue with encrypted=true
\* whose owner has no PGP key raises ValueError("User does not have a PGP
\* key") and leaves every _value as it was.
C2_missing_key_no_write ==
    [][SetWithoutKey' =>
          /\ last'.raised = ValueErrorNoKey
          /\ field_values' = field_values]_vars

\* the write was refused on a FieldValue that holds a value
C2_witness ==
    /\ SetWithoutKey
    /\ last.raised = ValueErrorNoKey
    /\ truthy(LastRow._value)

\* the call just made gave an encrypted FieldValue a value with the marker
MarkedWrite ==
    /\ last.op \in {"init", "set"}
    /\ last.encrypted
    /\ startswith(last.value, ArmorMarker)

\* C4: a value that begins with the marker, set on a FieldValue with
\* encrypted=true, is neither padded nor PGP-encrypted; get returns exactly
\* the text that was set, and setting what get returns leaves the decoded
\* value as it was.
C4_marked_passthrough ==
    [][/\ MarkedWrite' =>
             /\ last'.raised = NoError
             /\ last'.gpg = "none"
             /\ FieldValue_value(field_values'[last'.f]) = last'.value
       /\ (last'.op = "resave" /\ last'.encrypted) =>
             /\ last'.raised = NoError
             /\ last'.gpg = "none"
             /\ FieldValue_value(field_values'[last'.f])
                    = FieldValue_value(field_values[last'.f])]_vars

\* an armored text was set with no key on file, and get returns it
C4_witness ==
    /\ MarkedWrite
    /\ last.value = ArmorMarker \o <<32, 104, 105>>
    /\ ~truthy(OwnerKey(LastRow))
    /\ FieldValue_value(LastRow) = last.value

\* the call just made gave an encrypted FieldValue a string without the
\* marker, and gpg encrypted it
EncryptedWrite ==
    /\ last.op \in {"init", "set"}
    /\ last.encrypted
    /\ IsStr(last.value)
    /\ ~startswith(last.value, ArmorMarker)
    /\ last.gpg = "ok"

\* C9: when the owner has a key and PGP encryption succeeds, setting p without
\* the marker on a FieldValue with encrypted=true stores a value whose decode
\* begins with the marker, and the text that was encrypted is p followed only
\* by the padding.
C9_stores_armored_padded ==
    EncryptedWrite =>
        /\ last.raised = NoError
        /\ startswith(FieldValue_value(LastRow), ArmorMarker)
        /\ IsPaddedFrom(gpg_open(FieldValue_value(LastRow), OwnerKey(LastRow)),
                        last.value)

\* "hello" was set and the owner's key opens the stored value
C9_witness ==
    /\ EncryptedWrite
    /\ last.op = "set"
    /\ last.value = <<104, 101, 108, 108, 111>>
    /\ startswith(gpg_open(FieldValue_value(LastRow), OwnerKey(LastRow)), last.value)

\* the call just made gave a FieldValue with encrypted=false a string
PlainWrite ==
    /\ last.op \in {"init", "set"}
    /\ ~last.encrypted
    /\ IsStr(last.value)

\* C10: setting p on a FieldValue with encrypted=false and getting it returns
\* exactly p.
C10_plain_round_trip ==
    PlainWrite =>
        /\ last.raised = NoError
        /\ last.gpg = "none"
        /\ FieldValue_value(LastRow) = last.value

\* a text with the marker was set on a FieldValue with encrypted=false of an
\* owner who has a key
C10_witness ==
    /\ PlainWrite
    /\ last.op = "set"
    /\ startswith(last.value, ArmorMarker)
    /\ truthy(OwnerKey(LastRow))
    /\ FieldValue_value(LastRow) = last.value

\* the call just made had None to save: None given to a FieldValue with
\* encrypted=false, for which encrypt_field returns None
NoneWrite ==
    /\ last.op \in {"init", "set"}
    /\ ~last.encrypted
    /\ last.value = None

\* C13: when encrypt_field returns None for the value to save, the FieldValue
\* setter does not raise and stores the empty string as _value.
C13_none_stored_as_empty ==
    NoneWrite =>
        /\ last.raised = NoError
        /\ LastRow._value = <<>>
        /\ LastRow._value # None

\* None was set on a FieldValue that held "hello"; its _value is now ""
C13_witness ==
    /\ NoneWrite
    /\ last.op = "set"
    /\ last.raised = NoError
    /\ LastRow._value = <<>>

----------------------------------------------------------------------------
(* Properties of the writes that demand PGP encryption (SpecWrite) *)

\* C3: when the identity lookup or the PGP encryption fails, the write is
\* given up: the FieldValue setter raises ValueError("Failed to encrypt
\* value") and changes no _value, submit_message stores no Message.
C3_failed_pgp_aborts ==
    [][/\ (last'.op = "set" /\ last'.gpg = "failed") =>
             /\ last'.raised = ValueErrorEncrypt
             /\ field_values' = field_values
       /\ (last'.op = "init" /\ last'.gpg = "failed") =>
             /\ last'.raised = ValueErrorEncrypt
             /\ field_values' = field_values
       /\ (last'.op = "submit_message" /\ last'.gpg \in {"no_identity", "failed"}) =>
             /\ ~last'.stored
             /\ messages' = messages]_vars

\* a message for a user with a key was refused because gpg failed
C3_witness ==
    /\ last.op = "submit_message"
    /\ last.gpg = "failed"
    /\ truthy(User_pgp_key(users[1]))
    /\ messages = <<>>

----------------------------------------------------------------------------
(* Lists given to FieldValue (SpecList) *)

\* the lists of str given as value: [], [""], ["a"], ["a", "b", "c"],
\* ["", "a"], ["a", ""], ["hello", e-acute euro], ["a\nb", "c"], and a list
\* whose first element is the marker
ListElemInputs ==
    { <<>>,
      << <<>> >>,
      << <<97>> >>,
      << <<97>>, <<98>>, <<99>> >>,
      << <<>>, <<97>> >>,
      << <<97>>, <<>> >>,
      << <<104, 101, 108, 108, 111>>, <<233, 8364>> >>,
      << <<97, 10, 98>>, <<99>> >>,
      << ArmorMarker, <<120>> >> }

\* the values of the list runs: the lists, and the strings "hello", "a\nb\nc"
ListValueInputs ==
    {ListOf(elems) : elems \in ListElemInputs}
        \cup {<<104, 101, 108, 108, 111>>, <<97, 10, 98, 10, 99>>}

NextList ==
    \/ \E f \in FieldIds, owner \in UserIds, value \in ListValueInputs,
          encrypted \in BOOLEAN, iv \in CodecIVs, rnd \in RndInputs, gpg_ok \in BOOLEAN :
            FieldValue_init(f, owner, value, encrypted, iv, rnd, gpg_ok)
    \/ \E f \in FieldIds, value \in ListValueInputs, iv \in CodecIVs, rnd \in RndInputs,
          gpg_ok \in BOOLEAN :
            FieldValue_value_set(f, value, iv, rnd, gpg_ok)
    \/ \E f \in FieldIds : FieldValue_value_get(f)

SpecList == Init /\ [][NextList]_vars

\* the elements in their order, one newline between neighbours
RECURSIVE NewlineSeparated(_)
NewlineSeparated(elems) ==
    IF Len(elems) = 0 THEN <<>>
    ELSE IF Len(elems) = 1 THEN elems[1]
    ELSE elems[1] \o <<10>> \o NewlineSeparated(Tail(elems))

\* the call just made gave a FieldValue with encrypted=false a list
PlainListWrite ==
    /\ last.op \in {"init", "set"}
    /\ ~last.encrypted
    /\ isinstance_list(last.value)

\* C11: setting a list of strings on a FieldValue with encrypted=false and
\* getting the value returns the elements in their order joined by single
\* newlines: "" for the empty list, the element itself for a list of one.
C11_list_joined_by_newline ==
    PlainListWrite =>
        /\ last.raised = NoError
        /\ \E elems \in ListElemInputs :
              /\ last.value = ListOf(elems)
              /\ FieldValue_value(LastRow) = NewlineSeparated(elems)

\* ["a", "b", "c"] was set and get returns "a\nb\nc"
C11_witness ==
    /\ PlainListWrite
    /\ last.op = "set"
    /\ last.value = <<ListHead, 97, ListEnd, 98, ListEnd, 99, ListEnd>>
    /\ FieldValue_value(LastRow) = <<97, 10, 98, 10, 99>>

----------------------------------------------------------------------------
(* The encrypted columns of User and Message (SpecColumns) *)

\* the attribute behind each encrypted property of User (app.py 150-156)
ColumnField ==
    [password_hash |-> "_password_hash", totp_secret |-> "_totp_secret",
     email |-> "_email", smtp_server |-> "_smtp_server",
     smtp_username |-> "_smtp_username", smtp_password |-> "_smtp_password",
     pgp_key |-> "_pgp_key"]

SensitiveColumns == DOMAIN ColumnField

\* app.py 168-221: the getter of an encrypted property
User_column(user, column) == decrypt_field(user[ColumnField[column]])

\* app.py 273-276
Message_content(message) == decrypt_field(message._content)

\* a setter that stores the value as it is given
column_setter_clear(value, iv) == value

\* app.py 172-174, 180-185, ..., 223-228: what a setter stores; the None
\* branch of totp_secret and pgp_key stores what encrypt_field returns for None
column_setter(value, iv) == encrypt_field(value, iv)

\* user.<column> = value
User_column_set(u, column, value, iv) ==
    /\ users' = [users EXCEPT ![u][ColumnField[column]] = column_setter(value, iv)]
    /\ last' = [NoCall EXCEPT !.op = "set_column", !.value = value,
                              !.column = column, !.user = u]
    /\ UNCHANGED <<secondary_users, field_values, messages, codec, pad, sessions, requests,
                 checkouts, invite_codes>>

\* app.py 172-174
User_password_hash_set(u, value, iv) == User_column_set(u, "password_hash", value, iv)
\* app.py 180-185
User_totp_secret_set(u, value, iv) == User_column_set(u, "totp_secret", value, iv)
\* app.py 191-193
User_email_set(u, value, iv) == User_column_set(u, "email", value, iv)
\* app.py 199-201
User_smtp_server_set(u, value, iv) == User_column_set(u, "smtp_server", value, iv)
\* app.py 207-209
User_smtp_username_set(u, value, iv) == User_column_set(u, "smtp_username", value, iv)
\* app.py 215-217
User_smtp_password_set(u, value, iv) == User_column_set(u, "smtp_password", value, iv)

\* app.py 258: the id the database gives the next Message
next_message_id ==
    IF Len(messages) = 0 THEN 1 ELSE messages[Len(messages)].id + 1

\* app.py 255-281: Message(content=value, user_id=u), added and committed
Message_init(value, u, iv) ==
    /\ Len(messages) < MaxMessages
    /\ messages' = Append(messages,
            [id |-> next_message_id, _content |-> column_setter(value, iv),
             user_id |-> u, secondary_user_id |-> 0])
    /\ last' = [NoCall EXCEPT !.op = "new_message", !.value = value,
                              !.column = "content", !.stored = TRUE]
    /\ UNCHANGED <<users, secondary_users, field_values, codec, pad, sessions, requests,
                 checkouts, invite_codes>>

\* the values the column runs set: None and "s"
ColumnInputs == {None, <<115>>}

\* the values the column runs give a FieldValue: None and "hello"
ColumnValueInputs == {None, <<104, 101, 108, 108, 111>>}

NextColumns ==
    \/ \E u \in UserIds, value \in ColumnInputs, iv \in IVs :
          \/ User_password_hash_set(u, value, iv)
          \/ User_totp_secret_set(u, value, iv)
          \/ User_email_set(u, value, iv)
          \/ User_smtp_server_set(u, value, iv)
          \/ User_smtp_username_set(u, value, iv)
          \/ User_smtp_password_set(u, value, iv)
    \/ \E u \in UserIds, value \in {None, <<75, 49>>}, iv \in IVs :
          User_pgp_key_set(u, value, iv)
    \/ \E u \in UserIds, value \in ColumnInputs \ {None}, iv \in IVs :
          Message_init(value, u, iv)
    \/ \E f \in FieldIds, owner \in UserIds, value \in ColumnValueInputs,
          encrypted \in BOOLEAN, iv \in IVs, rnd \in RndInputs :
            FieldValue_init(f, owner, value, encrypted, iv, rnd, TRUE)

SpecColumns == Init /\ [][NextColumns]_vars

\* stored is a Fernet token of value and not value itself
SymCiphertextOf(stored, value) ==
    /\ stored # None
    /\ value # None
    /\ stored # value
    /\ decrypt_field(stored) = value

\* the contract of an encrypted column: null or the ciphertext of the value
\* set, and the getter returns the value set
ColumnContract(stored, value) ==
    /\ stored = None \/ SymCiphertextOf(stored, value)
    /\ decrypt_field(stored) = value

\* the column the last property setter wrote, as persisted
LastColumn == users[last.user][ColumnField[last.column]]

\* the contract for the columns of User and for Message.content
UserMessageContract ==
    /\ last.op \in {"set_column", "set_pgp_key"} => ColumnContract(LastColumn, last.value)
    /\ last.op = "new_message" =>
          ColumnContract(messages[Len(messages)]._content, last.value)

FieldValueContract(stored, value, encrypted) ==
    IF value = None
    THEN stored = <<>> /\ decrypt_field(stored) = InvalidToken
    ELSE IF encrypted /\ ~startswith(value, ArmorMarker)
    THEN /\ SymCiphertextOf(stored, decrypt_field(stored))
         /\ startswith(decrypt_field(stored), ArmorMarker)
         /\ decrypt_field(stored) # value
    ELSE ColumnContract(stored, value)

----------------------------------------------------------------------------
(* Reading columns whose ciphertext was changed outside the application    *)
(* (SpecRead)                                                              *)

\* a Fernet key other than the key of the process
OTHER_KEY == ENCRYPTION_KEY + 1

\* the other hexadecimal digit written in place of c
OtherDigit(c) == IF c = 48 THEN 49 ELSE 48

\* what a stored token can become: one digit changed (in the IV, in the
\* ciphertext, in the tag), the end cut off, the empty string, the token of
\* the same plaintext under OTHER_KEY
Damaged(stored) ==
    LET n == Len(stored)
        plain == fernet_decrypt(ENCRYPTION_KEY, stored)
        iv == TokenBytes(SubSeq(stored, 2, 3))[1]
    IN  {[stored EXCEPT ![i] = OtherDigit(stored[i])] : i \in {2, 3, 4, n - 2, n}}
            \cup {SubSeq(stored, 1, n - 1), SubSeq(stored, 1, n - 2), <<>>}
            \cup (IF plain = InvalidToken THEN {}
                  ELSE {fernet_encrypt(OTHER_KEY, iv, plain)})

\* the stored bytes of a User column, a token the application wrote, change
\* outside the application
Column_damage(u, column) ==
    /\ users[u][ColumnField[column]] # None
    /\ fernet_decrypt(ENCRYPTION_KEY, users[u][ColumnField[column]]) # InvalidToken
    /\ \E damaged \in Damaged(users[u][ColumnField[column]]) :
          users' = [users EXCEPT ![u][ColumnField[column]] = damaged]
    /\ last' = [NoCall EXCEPT !.op = "damage", !.column = column, !.user = u]
    /\ UNCHANGED <<secondary_users, field_values, messages, codec, pad, sessions, requests,
                 checkouts, invite_codes>>

\* the stored bytes of a FieldValue, a token the application wrote, change
\* outside the application
FieldValue_damage(f) ==
    /\ field_values[f] # NoRow
    /\ fernet_decrypt(ENCRYPTION_KEY, field_values[f]._value) # InvalidToken
    /\ \E damaged \in Damaged(field_values[f]._value) :
          field_values' = [field_values EXCEPT ![f]._value = damaged]
    /\ last' = [NoCall EXCEPT !.op = "damage", !.f = f]
    /\ UNCHANGED <<users, secondary_users, messages, codec, pad, sessions, requests,
                 checkouts, invite_codes>>

\* app.py 168-221: user.<column> is read
User_column_get(u, column) ==
    /\ LET got == User_column(users[u], column)
       IN  last' = [NoCall EXCEPT !.op = "get_column", !.column = column, !.user = u,
                       !.raised = IF got \in Errors THEN got ELSE NoError,
                       !.result = IF got \in Errors THEN None ELSE got]
    /\ UNCHANGED <<users, secondary_users, field_values, messages, codec, pad, sessions, requests,
                 checkouts, invite_codes>>

\* the columns and values of the read runs
ReadColumns == {"email"}
ReadInputs == {None, <<>>, <<115>>, <<233, 8364>>}

NextRead ==
    \/ \E u \in UserIds, value \in ReadInputs, iv \in IVs :
          User_email_set(u, value, iv)
    \/ \E u \in UserIds, column \in ReadColumns :
          \/ User_column_get(u, column)
          \/ Column_damage(u, column)
    \/ \E f \in FieldIds, owner \in UserIds, value \in ReadInputs, iv \in IVs,
          rnd \in RndInputs :
            FieldValue_init(f, owner, value, FALSE, iv, rnd, TRUE)
    \/ \E f \in FieldIds : FieldValue_value_get(f)
    \/ \E f \in FieldIds : FieldValue_damage(f)

SpecRead == Init /\ [][NextRead]_vars

\* the tokens encrypt_field makes of the values of the read runs
GenuineTokens == {encrypt_field(value, iv) : value \in ReadInputs \ {None}, iv \in IVs}

\* what the getter read last: the stored column or _value
LastStored ==
    IF last.op = "get_column" THEN users[last.user][ColumnField[last.column]]
    ELSE field_values[last.f]._value

\* C14: a getter whose stored ciphertext is damaged or was made under another
\* key raises InvalidToken to its caller; it returns None only when the
\* stored value is None, and never an empty value for a damaged one.
C14_decrypt_error_reaches_caller ==
    last.op \in {"get_column", "get"} =>
        /\ LastStored = None => (last.raised = NoError /\ last.result = None)
        /\ (LastStored # None /\ LastStored \notin GenuineTokens) =>
              last.raised = InvalidToken
        /\ LastStored \in GenuineTokens =>
              (last.raised = NoError /\ encrypt_field(last.result, 0) = LastStored)

\* the email column holds a token made under another key, and reading it
\* raised InvalidToken
C14_witness ==
    /\ last.op = "get_column"
    /\ last.column = "email"
    /\ last.raised = InvalidToken
    /\ fernet_decrypt(OTHER_KEY, LastStored) = <<115>>

----------------------------------------------------------------------------
(* The key a PGP-encrypting write uses (SpecWrite) *)

\* the key in the pgp_key column of user u, as the column decrypts now
StoredKey(u) == decrypt_field(users[u]._pgp_key)

\* text was encrypted to recipient and to no other key or address on file
EncryptedOnlyTo(text, recipient) ==
    /\ IsPGPOutput(text, recipient)
    /\ \A k \in PGPKeys :
          /\ k # recipient => ~IsPGPOutput(text, k)
          /\ KeyEmail(k) # recipient => ~IsPGPOutput(text, KeyEmail(k))

----------------------------------------------------------------------------
(* Two requests that write the same row: each assigns to its own copy of the
   row, and db.session.commit() writes the assigned columns in one UPDATE *)

\* the columns one request has changed, written to the stored row in pieces:
\* only the first of them (in the order of the form) reaches the row
row_update_torn(stored, mine, columns) ==
    LET first == IF "_email" \in columns THEN "_email" ELSE "_value"
    IN  [c \in DOMAIN stored |-> IF c = first THEN mine[c] ELSE stored[c]]

\* app.py 752: the UPDATE that commit issues for one row sets every assigned
\* column of that row at once
row_update(stored, mine, columns) ==
    [c \in DOMAIN stored |-> IF c \in columns THEN mine[c] ELSE stored[c]]

\* app.py 747-751: the columns the SMTP form assigns
SmtpColumns ==
    {"_email", "_smtp_server", "smtp_port", "_smtp_username", "_smtp_password"}

\* two filled-in SMTP forms that differ in every field
FormInputs ==
    {[email |-> <<97>>, smtp_server |-> <<98>>, smtp_port |-> 25,
      smtp_username |-> <<99>>, smtp_password |-> <<100>>],
     [email |-> <<119>>, smtp_server |-> <<120>>, smtp_port |-> 587,
      smtp_username |-> <<121>>, smtp_password |-> <<122>>]}

\* the values two requests give to one FieldValue: "hello", "bye"
RaceValueInputs == {<<104, 101, 108, 108, 111>>, <<98, 121, 101>>}

RaceIVs == {0}

\* app.py 746-751: settings with a valid SMTP form, up to the commit: the
\* five setters run on the request's own copy of the user
settings_smtp(r, u, form, iv) ==
    /\ requests[r].pc = "idle"
    /\ requests' = [requests EXCEPT ![r] =
          [NoRequest EXCEPT
             !.pc = "assigned", !.kind = "settings", !.target = u, !.form = form,
             !.user_row =
                 [users[u] EXCEPT
                    !._email = column_setter(form.email, iv),
                    !._smtp_server = column_setter(form.smtp_server, iv),
                    !.smtp_port = form.smtp_port,
                    !._smtp_username = column_setter(form.smtp_username, iv),
                    !._smtp_password = column_setter(form.smtp_password, iv)]]]
    /\ UNCHANGED <<users, secondary_users, field_values, messages, last, codec, pad,
                   sessions, checkouts,
                   invite_codes>>

\* field_value.py 68-98 in a request: field.value = value on the request's own
\* copy of the row; a setter that raises ends the request with nothing assigned
FieldValue_value_assign(r, f, value, iv, rnd) ==
    /\ requests[r].pc = "idle"
    /\ field_values[f] # NoRow
    /\ LET new == value_set(field_values[f], value, iv, rnd, TRUE)
       IN  /\ new.raised = NoError
           /\ requests' = [requests EXCEPT ![r] =
                 [NoRequest EXCEPT !.pc = "assigned", !.kind = "field",
                                   !.target = f, !.value = value,
                                   !.field_row = new.row]]
    /\ UNCHANGED <<users, secondary_users, field_values, messages, last, codec, pad,
                   sessions, checkouts,
                   invite_codes>>

\* the copies of the same row that other requests hold become stale
others_stale(r) ==
    [o \in RequestIds |->
        IF o = r THEN NoRequest
        ELSE IF /\ requests[o].pc = "assigned"
                /\ requests[o].kind = requests[r].kind
                /\ requests[o].target = requests[r].target
             THEN [requests[o] EXCEPT !.stale = TRUE]
             ELSE requests[o]]

\* app.py 752: db.session.commit() of request r
db_session_commit(r) ==
    /\ requests[r].pc = "assigned"
    /\ LET mine == requests[r]
       IN  /\ IF mine.kind = "settings"
              THEN /\ users' = [users EXCEPT ![mine.target] =
                                   row_update(@, mine.user_row, SmtpColumns)]
                   /\ UNCHANGED field_values
              ELSE /\ field_values' = [field_values EXCEPT ![mine.target] =
                                          row_update(@, mine.field_row, {"_value"})]
                   /\ UNCHANGED users
           /\ last' = [NoCall EXCEPT
                          !.op = "commit", !.request = r, !.column = mine.kind,
                          !.user = IF mine.kind = "settings" THEN mine.target ELSE 0,
                          !.f = IF mine.kind = "field" THEN mine.target ELSE 0,
                          !.encrypted = mine.field_row.encrypted,
                          !.form = mine.form, !.value = mine.value,
                          !.stale = mine.stale]
    /\ requests' = others_stale(r)
    /\ UNCHANGED <<secondary_users, messages, codec, pad, sessions, checkouts,
                   invite_codes>>

NextRace ==
    \/ \E r \in RequestIds, u \in UserIds, form \in FormInputs, iv \in RaceIVs :
          settings_smtp(r, u, form, iv)
    \/ \E r \in RequestIds, f \in FieldIds, value \in RaceValueInputs,
          iv \in RaceIVs, rnd \in RndInputs :
            FieldValue_value_assign(r, f, value, iv, rnd)
    \/ \E r \in RequestIds : db_session_commit(r)
    \/ \E f \in FieldIds, owner \in UserIds, value \in HelloInputs,
          encrypted \in BOOLEAN, iv \in IVs, rnd \in RndInputs :
            FieldValue_init(f, owner, value, encrypted, iv, rnd, TRUE)
    \/ \E u \in UserIds, iv \in IVs : User_pgp_key_set(u, <<75, 49>>, iv)

SpecRace == Init /\ [][NextRace]_vars

----------------------------------------------------------------------------
(* Accounts and sessions: login, two-factor login and the handlers of a
   logged-in user (app.py 364-377, 441-496, 548-686, 886-890, 1054-1187) *)

AccountIds == {1, 2}

\* "bob"
Bob == <<98, 111, 98>>

\* the primary_username and the password each account registered with:
\* "alice" with "p1", "bob" with "p2"
RegisteredName(u) == IF u = 1 THEN Alice ELSE Bob
RegisteredPassword(u) == <<112, 48 + u>>

\* app.py 427: bcrypt.generate_password_hash(password).decode("utf-8"); the
\* hash is "$" followed by what only the password determines
generate_password_hash(password) == <<36>> \o password

\* app.py 558: bcrypt.check_password_hash(pw_hash, password)
check_password_hash(pw_hash, password) ==
    IsStr(pw_hash) /\ pw_hash = generate_password_hash(password)

\* app.py 404-438: the User that a successful register commits
register(u, username, password, iv) ==
    [NewUser(u) EXCEPT
        !.primary_username = username,
        !._password_hash = column_setter(generate_password_hash(password), iv)]

\* app.py 464: what pyotp.random_base32() returns: "A" or "B"
TotpSecrets == {<<65>>, <<66>>}

\* pyotp.TOTP(secret).now(): the code that the secret gives at this instant
totp_now(secret) == SumSeq(secret) % 10

\* a check that takes any code
totp_verify_any(secret, code) == TRUE

\* app.py 453, 634-635: pyotp.TOTP(secret).verify(code)
totp_verify(secret, code) == code = totp_now(secret)

\* the codes a browser sends: the code of "A" and the code of "B"
CodeInputs == {5, 6}

\* app.py 556: User.query.filter_by(primary_username=username).first(), 0 for None
user_by_primary_username(username) ==
    LET found == {u \in DOMAIN users : users[u].primary_username = username}
    IN  IF found = {} THEN 0 ELSE CHOOSE u \in found : \A o \in found : u <= o

\* app.py 364-377: whether require_2fa calls the wrapped handler
require_2fa(session) ==
    /\ session.user_id # 0 /\ session.is_authenticated
    /\ ~(session.twofa_required /\ ~session.twofa_verified)

\* app.py 548-580: POST /login with a valid form
login(s, username, password) ==
    /\ LET u == user_by_primary_username(username)
           ok == u # 0 /\ check_password_hash(User_column(users[u], "password_hash"),
                                              password)
           totp_secret == User_column(users[u], "totp_secret")
       IN  /\ sessions' =
                IF ~ok THEN sessions
                ELSE [sessions EXCEPT ![s] =
                        [@ EXCEPT !.user_id = u,
                                  !.username = users[u].primary_username,
                                  !.is_authenticated = TRUE,
                                  !.twofa_required = (totp_secret # None),
                                  !.twofa_verified = ~truthy(totp_secret)]]
           /\ last' = [NoCall EXCEPT !.op = "login", !.session = s, !.passed = ok,
                                     !.value = password,
                                     !.user = IF ok THEN u ELSE 0]
    /\ UNCHANGED <<users, secondary_users, field_values, messages, codec, pad, requests,
                 checkouts, invite_codes>>

\* app.py 618-641: POST /verify-2fa-login with a valid form; pyotp raises for a
\* user without a secret and the session stays as it is
verify_2fa_login(s, code) ==
    /\ LET session == sessions[s]
           go_on == session.user_id # 0 /\ session.twofa_required
           secret == IF go_on THEN User_column(users[session.user_id], "totp_secret")
                     ELSE None
           ok == go_on /\ secret # None /\ totp_verify(secret, code)
       IN  /\ sessions' = IF ok THEN [sessions EXCEPT ![s].twofa_verified = TRUE]
                          ELSE sessions
           /\ last' = [NoCall EXCEPT !.op = "verify_2fa_login", !.session = s,
                                     !.code = code, !.passed = ok,
                                     !.user = session.user_id]
    /\ UNCHANGED <<users, secondary_users, field_values, messages, codec, pad, requests,
                 checkouts, invite_codes>>

\* app.py 886-890
logout(s) ==
    /\ sessions' = [sessions EXCEPT ![s].user_id = 0, ![s].twofa_verified = FALSE]
    /\ last' = [NoCall EXCEPT !.op = "logout", !.session = s]
    /\ UNCHANGED <<users, secondary_users, field_values, messages, codec, pad, requests,
                 checkouts, invite_codes>>

\* app.py 441-447, 463-483: GET /enable-2fa
enable_2fa_get(s, secret) ==
    /\ LET session == sessions[s]
       IN  /\ sessions' =
                IF session.user_id = 0 THEN sessions
                ELSE [sessions EXCEPT ![s].temp_totp_secret = secret,
                                      ![s].is_setting_up_2fa = TRUE]
           /\ last' = [NoCall EXCEPT !.op = "enable_2fa_get", !.session = s,
                                     !.user = session.user_id,
                                     !.passed = session.user_id # 0]
    /\ UNCHANGED <<users, secondary_users, field_values, messages, codec, pad, requests,
                 checkouts, invite_codes>>

\* app.py 441-461: POST /enable-2fa with a valid form
enable_2fa(s, code, iv) ==
    /\ LET session == sessions[s]
           temp_totp_secret == session.temp_totp_secret
           ok == /\ session.user_id # 0
                 /\ truthy(temp_totp_secret)
                 /\ totp_verify(temp_totp_secret, code)
       IN  /\ users' =
                IF ~ok THEN users
                ELSE [users EXCEPT ![session.user_id]._totp_secret =
                                      column_setter(temp_totp_secret, iv)]
           /\ sessions' = IF ~ok THEN sessions
                          ELSE [sessions EXCEPT ![s].temp_totp_secret = None]
           /\ last' = [NoCall EXCEPT !.op = "enable_2fa", !.session = s,
                                     !.code = code, !.user = session.user_id,
                                     !.passed = ok]
    /\ UNCHANGED <<secondary_users, field_values, messages, codec, pad, requests,
                 checkouts, invite_codes>>

\* app.py 486-496
disable_2fa(s) ==
    /\ LET session == sessions[s]
       IN  /\ users' =
                IF session.user_id = 0 THEN users
                ELSE [users EXCEPT ![session.user_id]._totp_secret = None]
           /\ last' = [NoCall EXCEPT !.op = "disable_2fa", !.session = s,
                                     !.user = session.user_id,
                                     !.passed = session.user_id # 0]
    /\ UNCHANGED <<secondary_users, field_values, messages, codec, pad, sessions,
                   requests,
                 checkouts, invite_codes>>

\* app.py 1043-1051: whether gpg imports the key
is_valid_pgp_key(key) == key \in PGPKeys

\* what the PGP key form carries: "", "K1", "x"
PgpFormInputs == {<<>>, <<75, 49>>, <<120>>}

\* app.py 1054-1080: POST /update_pgp_key with a valid form
update_pgp_key(s, pgp_key, iv) ==
    /\ LET session == sessions[s]
           ok == session.user_id # 0 /\ (pgp_key = <<>> \/ is_valid_pgp_key(pgp_key))
       IN  /\ users' =
                IF ~ok THEN users
                ELSE [users EXCEPT ![session.user_id]._pgp_key =
                         IF pgp_key = <<>> THEN None ELSE encrypt_field(pgp_key, iv)]
           /\ last' = [NoCall EXCEPT !.op = "update_pgp_key", !.session = s,
                                     !.value = pgp_key, !.user = session.user_id,
                                     !.passed = ok]
    /\ UNCHANGED <<secondary_users, field_values, messages, codec, pad, sessions,
                   requests,
                 checkouts, invite_codes>>

\* the SMTP form a browser sends
SmtpFormInputs == {form \in FormInputs : form.smtp_port = 25}

\* app.py 1119-1144: POST /update_smtp_settings with a valid form
update_smtp_settings(s, form, iv) ==
    /\ LET session == sessions[s]
       IN  /\ users' =
                IF session.user_id = 0 THEN users
                ELSE [users EXCEPT ![session.user_id] =
                        [@ EXCEPT
                           !._email = column_setter(form.email, iv),
                           !._smtp_server = column_setter(form.smtp_server, iv),
                           !.smtp_port = form.smtp_port,
                           !._smtp_username = column_setter(form.smtp_username, iv),
                           !._smtp_password = column_setter(form.smtp_password, iv)]]
           /\ last' = [NoCall EXCEPT !.op = "update_smtp_settings", !.session = s,
                                     !.form = form, !.user = session.user_id,
                                     !.passed = session.user_id # 0]
    /\ UNCHANGED <<secondary_users, field_values, messages, codec, pad, sessions,
                   requests,
                 checkouts, invite_codes>>

\* app.py 1168-1187
delete_message(s, message_id) ==
    /\ LET session == sessions[s]
           mine(message) == message.id = message_id /\ message.user_id = session.user_id
           keep(message) == ~mine(message)
           ok == session.user_id # 0 /\ \E i \in 1..Len(messages) : mine(messages[i])
       IN  /\ messages' = IF ok THEN SelectSeq(messages, keep) ELSE messages
           /\ last' = [NoCall EXCEPT !.op = "delete_message", !.session = s,
                                     !.user = session.user_id, !.passed = ok]
    /\ UNCHANGED <<users, secondary_users, field_values, codec, pad, sessions, requests,
                 checkouts, invite_codes>>

\* app.py 659-670: the messages that the inbox of username lists
inbox_messages(username) ==
    LET who == user_by_primary_username(username)
        secondary == {a \in secondary_users : a.username = username}
    IN  IF who # 0
        THEN {messages[i].id : i \in {j \in 1..Len(messages) : messages[j].user_id = who}}
        ELSE {messages[i].id : i \in {j \in 1..Len(messages) :
                 \E a \in secondary : messages[j].secondary_user_id = a.id}}

\* app.py 644-686 under require_2fa: GET /inbox/<username>; passed: whether the
\* body of inbox ran, shown: the ids of the messages in the page
inbox(s, username) ==
    /\ LET session == sessions[s]
           passed == require_2fa(session)
       IN  last' = [NoCall EXCEPT !.op = "inbox", !.session = s, !.value = username,
                                  !.user = session.user_id, !.passed = passed,
                                  !.shown = IF passed THEN inbox_messages(username)
                                            ELSE {}]
    /\ UNCHANGED <<users, secondary_users, field_values, messages, codec, pad,
                   sessions, requests,
                 checkouts, invite_codes>>

\* both accounts registered, nobody logged in
InitAccount ==
    /\ users = [u \in AccountIds |->
                  register(u, RegisteredName(u), RegisteredPassword(u), 0)]
    /\ secondary_users = {}
    /\ field_values = [f \in FieldIds |-> NoRow]
    /\ messages = <<>>
    /\ last = NoCall
    /\ sessions = [s \in SessionIds |-> NoSession]
    /\ requests = [r \in RequestIds |-> NoRequest]
    /\ checkouts = {}
    /\ invite_codes = NewInviteCodes
    /\ codec = CodecIdle
    /\ pad = PadIdle

\* the usernames a browser puts in a form or a URL, the passwords it sends
LoginNames == {Alice, Bob}
LoginPasswords == {RegisteredPassword(u) : u \in AccountIds}

\* logging in and reading the inbox
NextAccount ==
    \/ \E s \in SessionIds, username \in LoginNames, password \in LoginPasswords :
          login(s, username, password)
    \/ \E s \in SessionIds, code \in CodeInputs : verify_2fa_login(s, code)
    \/ \E s \in SessionIds : logout(s)
    \/ \E s \in SessionIds, secret \in TotpSecrets : enable_2fa_get(s, secret)
    \/ \E s \in SessionIds, code \in CodeInputs, iv \in IVs : enable_2fa(s, code, iv)
    \/ \E s \in SessionIds : disable_2fa(s)
    \/ \E s \in SessionIds, username \in LoginNames : inbox(s, username)
    \/ \E u \in AccountIds, value \in HelloInputs, iv \in IVs : Message_init(value, u, iv)

SpecAccount == InitAccount /\ [][NextAccount]_vars

\* one account's session changing what is stored for the account
NextSettings ==
    \/ \E s \in SessionIds, password \in LoginPasswords : login(s, Alice, password)
    \/ \E s \in SessionIds, code \in CodeInputs : verify_2fa_login(s, code)
    \/ \E s \in SessionIds, secret \in TotpSecrets : enable_2fa_get(s, secret)
    \/ \E s \in SessionIds, code \in CodeInputs, iv \in IVs : enable_2fa(s, code, iv)
    \/ \E s \in SessionIds : disable_2fa(s)
    \/ \E s \in SessionIds, pgp_key \in PgpFormInputs, iv \in IVs :
          update_pgp_key(s, pgp_key, iv)
    \/ \E s \in SessionIds, form \in SmtpFormInputs, iv \in IVs :
          update_smtp_settings(s, form, iv)
    \/ \E s \in SessionIds, message_id \in 1..MaxMessages : delete_message(s, message_id)
    \/ \E u \in AccountIds, value \in HelloInputs, iv \in IVs : Message_init(value, u, iv)

SpecSettings == InitAccount /\ [][NextSettings]_vars

----------------------------------------------------------------------------
(* Two-factor login (SpecAccount) *)

\* C17: a session whose login found a TOTP secret (2fa_required) gets
\* 2fa_verified only from verify_2fa_login, for the user the session logged in
\* as and with the code of that user's stored secret; a session gets its
\* user only from login with the password of that user; and the body of a
\* handler under require_2fa runs only in a session that has a user, is
\* authenticated and, when 2fa_required, is 2fa_verified.
C17_verified_only_by_totp ==
    [][\A s \in SessionIds :
          /\ (sessions'[s].twofa_required /\ sessions'[s].twofa_verified) =>
                \/ /\ sessions[s].twofa_required /\ sessions[s].twofa_verified
                   /\ sessions'[s].user_id = sessions[s].user_id
                \/ /\ last'.op = "verify_2fa_login" /\ last'.session = s
                   /\ sessions[s].user_id # 0 /\ sessions[s].is_authenticated
                   /\ sessions[s].twofa_required
                   /\ sessions'[s].user_id = sessions[s].user_id
                   /\ LET secret == decrypt_field(users[sessions[s].user_id]._totp_secret)
                      IN  IsStr(secret) /\ last'.code = totp_now(secret)
          /\ (sessions'[s].user_id # 0 /\ sessions'[s].user_id # sessions[s].user_id) =>
                /\ last'.op = "login" /\ last'.session = s
                /\ decrypt_field(users[sessions'[s].user_id]._password_hash)
                      = generate_password_hash(last'.value)
          /\ (last'.op = "inbox" /\ last'.session = s /\ last'.passed) =>
                /\ sessions[s].user_id # 0 /\ sessions[s].is_authenticated
                /\ sessions[s].twofa_required => sessions[s].twofa_verified
      ]_vars

\* the inbox is served to a session that logged in with a password and then
\* passed verify_2fa_login
C17_witness ==
    /\ last.op = "inbox" /\ last.passed
    /\ sessions[last.session].twofa_required
    /\ sessions[last.session].twofa_verified
    /\ decrypt_field(users[sessions[last.session].user_id]._totp_secret) \in TotpSecrets

----------------------------------------------------------------------------
(* What a session can change before its TOTP code is verified (SpecSettings) *)

\* C18: a request of a session that has a user and 2fa_required but not
\* 2fa_verified leaves the user's TOTP secret, PGP key, SMTP settings and the
\* messages as they are.
C18_unverified_session_changes_nothing ==
    [][\A s \in SessionIds :
          LET u == sessions[s].user_id
          IN  (/\ u # 0 /\ sessions[s].is_authenticated
               /\ sessions[s].twofa_required /\ ~sessions[s].twofa_verified
               /\ last'.session = s) =>
                  /\ users'[u]._totp_secret = users[u]._totp_secret
                  /\ users'[u]._pgp_key = users[u]._pgp_key
                  /\ users'[u]._email = users[u]._email
                  /\ users'[u]._smtp_server = users[u]._smtp_server
                  /\ users'[u].smtp_port = users[u].smtp_port
                  /\ users'[u]._smtp_username = users[u]._smtp_username
                  /\ users'[u]._smtp_password = users[u]._smtp_password
                  /\ messages' = messages
      ]_vars

----------------------------------------------------------------------------
(* Whose messages the inbox lists (SpecAccount) *)

\* C19: every message in the page that inbox serves to a session belongs to
\* the user the session is logged in as.
C19_inbox_shows_own_messages ==
    (last.op = "inbox" /\ last.passed) =>
        \A i \in 1..Len(messages) :
            messages[i].id \in last.shown => messages[i].user_id = last.user

----------------------------------------------------------------------------
(* Payment events (app.py 1307-1439) *)

\* a lookup that takes the first user whatever the customer is
find_user_any(customer_id) == CHOOSE u \in DOMAIN users : \A o \in DOMAIN users : u <= o

\* app.py 1438-1439: User.query.filter_by(stripe_customer_id=customer_id)
\* .first(), 0 for None; a customer_id of None selects the rows whose column
\* is null
find_user_by_stripe_customer_id(customer_id) ==
    LET found == {u \in DOMAIN users : users[u].stripe_customer_id = customer_id}
    IN  IF found = {} THEN 0 ELSE CHOOSE u \in found : \A o \in found : u <= o

\* the checkout sessions the provider keeps at most
MaxCheckouts == 2

\* app.py 1307-1346: POST /create-checkout-session; stripe_ok: whether
\* stripe.Customer.create returns, checkout_ok: whether
\* stripe.checkout.Session.create returns.  The customer id is committed
\* before the checkout session is asked for; the new session is not paid
create_checkout_session(s, stripe_ok, checkout_ok) ==
    /\ Cardinality(checkouts) < MaxCheckouts
    /\ LET session == sessions[s]
           u == session.user_id
           known == u # 0 /\ users[u].stripe_customer_id # None
           ok == u # 0 /\ (known \/ stripe_ok)
           customer == IF known THEN users[u].stripe_customer_id ELSE StripeCustomer(u)
           made == ok /\ checkout_ok
       IN  /\ users' = IF ok /\ ~known
                       THEN [users EXCEPT ![u].stripe_customer_id = customer]
                       ELSE users
           /\ checkouts' =
                IF made
                THEN checkouts \cup {[id |-> Cardinality(checkouts) + 1,
                                      customer |-> customer, completed |-> FALSE]}
                ELSE checkouts
           /\ last' = [NoCall EXCEPT !.op = "create_checkout_session", !.session = s,
                                     !.user = u, !.passed = made]
    /\ UNCHANGED <<secondary_users, field_values, messages, codec, pad, sessions,
                   requests, invite_codes>>

\* the types of the events: the three that stripe_webhook handles and one it
\* does not
EventTypes ==
    {"checkout.session.completed", "customer.subscription.deleted",
     "invoice.payment_failed", "customer.subscription.updated"}

\* the customers of the events: those of the two accounts, one of no account,
\* and null
EventCustomers == {StripeCustomer(u) : u \in AccountIds} \cup {StripeCustomer(9), None}

EventInputs ==
    [valid_payload : BOOLEAN, valid_signature : BOOLEAN, type : EventTypes,
     has_customer : BOOLEAN, customer : EventCustomers]

\* app.py 1391-1435: construct_event raises for a payload that does not parse
\* and for a wrong signature, a missing key raises KeyError; each is answered
\* with 400 before anything is written
stripe_webhook(event) ==
    /\ LET valid == event.valid_payload /\ event.valid_signature
           handled == event.type \in {"checkout.session.completed",
                                      "customer.subscription.deleted",
                                      "invoice.payment_failed"}
           user == IF valid /\ handled /\ event.has_customer
                   THEN find_user_by_stripe_customer_id(event.customer)
                   ELSE 0
       IN  /\ users' =
                IF user = 0 THEN users
                ELSE [users EXCEPT ![user].has_paid =
                                      (event.type = "checkout.session.completed")]
           /\ last' = [NoCall EXCEPT
                          !.op = "stripe_webhook", !.event = event, !.user = user,
                          !.passed = valid /\ (handled => event.has_customer)]
    /\ UNCHANGED <<secondary_users, field_values, messages, codec, pad, sessions,
                   requests,
                 checkouts, invite_codes>>

NextStripe ==
    \/ \E s \in SessionIds, username \in LoginNames :
          login(s, username, RegisteredPassword(user_by_primary_username(username)))
    \/ \E s \in SessionIds, stripe_ok \in BOOLEAN :
          create_checkout_session(s, stripe_ok, FALSE)
    \/ \E event \in EventInputs : stripe_webhook(event)

SpecStripe == InitAccount /\ [][NextStripe]_vars

----------------------------------------------------------------------------
(* Who is marked as paid (app.py 1307-1380, 1391-1439) *)

\* the subscription of a checkout session: null until the checkout is
\* completed, then "sub_<id>"
checkout_subscription(checkout) ==
    IF checkout.completed THEN <<115, 117, 98, 95, 48 + checkout.id>> ELSE None

\* the payment provider: the customer of checkout session id pays
checkout_complete(id) ==
    /\ \E c \in checkouts : c.id = id /\ ~c.completed
    /\ checkouts' = {IF c.id = id THEN [c EXCEPT !.completed = TRUE] ELSE c :
                        c \in checkouts}
    /\ last' = [NoCall EXCEPT !.op = "checkout_complete"]
    /\ UNCHANGED <<users, secondary_users, field_values, messages, codec, pad,
                   sessions, requests, invite_codes>>

\* app.py 1349-1380: GET /payment-success?session_id=<session_id>;
\* stripe.checkout.Session.retrieve raises for an id the provider does not
\* hold, and the commit fails when another user holds the subscription id
\* (stripe_subscription_id is unique, app.py 162)
payment_success(s, session_id) ==
    /\ LET u == sessions[s].user_id
           held == {c \in checkouts : c.id = session_id}
           subscription_id == checkout_subscription(CHOOSE c \in held : TRUE)
           ok == /\ u # 0
                 /\ held # {}
                 /\ subscription_id # None =>
                       \A o \in DOMAIN users \ {u} :
                           users[o].stripe_subscription_id # subscription_id
       IN  /\ users' =
                IF ~ok THEN users
                ELSE [users EXCEPT ![u].has_paid = TRUE,
                                   ![u].stripe_subscription_id = subscription_id]
           /\ last' = [NoCall EXCEPT !.op = "payment_success", !.session = s,
                                     !.user = u, !.code = session_id, !.passed = ok]
    /\ UNCHANGED <<secondary_users, field_values, messages, codec, pad, sessions,
                   requests, checkouts, invite_codes>>

\* the events the provider signs for a checkout that was completed, and the
\* same events with a signature that does not verify
PaymentEvents ==
    LET event(signed, c) ==
            [valid_payload |-> TRUE, valid_signature |-> signed,
             type |-> "checkout.session.completed", has_customer |-> TRUE,
             customer |-> c.customer]
    IN  {event(TRUE, c) : c \in {d \in checkouts : d.completed}}
            \cup {event(FALSE, c) : c \in checkouts}

\* a request to /stripe-webhook with one of these events
payment_event(event) == event \in PaymentEvents /\ stripe_webhook(event)

NextPayment ==
    \/ \E s \in SessionIds, username \in LoginNames :
          login(s, username, RegisteredPassword(user_by_primary_username(username)))
    \/ \E s \in SessionIds, stripe_ok \in BOOLEAN, checkout_ok \in BOOLEAN :
          create_checkout_session(s, stripe_ok, checkout_ok)
    \/ \E id \in 1..MaxCheckouts : checkout_complete(id)
    \/ \E s \in SessionIds, session_id \in 1..(MaxCheckouts + 1) :
          payment_success(s, session_id)
    \/ \E event \in EventInputs : payment_event(event)

SpecPayment == InitAccount /\ [][NextPayment]_vars

\* C21: has_paid of a user turns true only in a request to /stripe-webhook
\* that carries a validly signed checkout.session.completed event for the
\* user's own customer id.
C21_paid_only_when_reported ==
    [][\A u \in AccountIds :
          (users'[u].has_paid /\ ~users[u].has_paid) =>
              /\ last'.op = "stripe_webhook"
              /\ last'.event.valid_payload /\ last'.event.valid_signature
              /\ last'.event.type = "checkout.session.completed"
              /\ last'.event.has_customer
              /\ last'.event.customer # None
              /\ last'.event.customer = users[u].stripe_customer_id
      ]_vars

----------------------------------------------------------------------------
(* Secondary usernames (app.py 1213-1255, 926-955) *)

\* app.py 1235: the secondary usernames one user can have
MAX_SECONDARY == 5

\* leading and trailing spaces removed (app.py 1239)
RECURSIVE strip(_)
strip(s) ==
    IF Len(s) = 0 THEN s
    ELSE IF s[1] = 32 THEN strip(Tail(s))
    ELSE IF s[Len(s)] = 32 THEN strip(SubSeq(s, 1, Len(s) - 1))
    ELSE s

\* the id the database gives the next SecondaryUser
next_secondary_id ==
    IF secondary_users = {} THEN 1
    ELSE 1 + CHOOSE n \in {a.id : a \in secondary_users} :
                 \A a \in secondary_users : a.id <= n

\* app.py 1213-1255 under require_2fa: POST /add-secondary-username
add_secondary_username(s, given) ==
    /\ LET session == sessions[s]
           u == session.user_id
           username == strip(given)
           ok == /\ require_2fa(session)
                 /\ users[u].has_paid
                 /\ Cardinality({a \in secondary_users : a.user_id = u}) < MAX_SECONDARY
                 /\ Len(username) > 0
                 /\ \A a \in secondary_users : a.username # username
       IN  /\ secondary_users' =
                IF ~ok THEN secondary_users
                ELSE secondary_users \cup
                        {[id |-> next_secondary_id, username |-> username,
                          user_id |-> u, display_name |-> None]}
           /\ last' = [NoCall EXCEPT !.op = "add_secondary_username", !.session = s,
                                     !.value = given, !.user = u, !.passed = ok]
    /\ UNCHANGED <<users, field_values, messages, codec, pad, sessions, requests,
                   checkouts, invite_codes>>

\* "al", " al", "bob", ""
AliasInputs == {<<97, 108>>, <<32, 97, 108>>, Bob, <<>>}

\* validly signed events that start and end the subscription of an account
SubscriptionEvents ==
    {[valid_payload |-> TRUE, valid_signature |-> TRUE, type |-> type,
      has_customer |-> TRUE, customer |-> StripeCustomer(u)] :
        type \in {"checkout.session.completed", "customer.subscription.deleted"},
        u \in AccountIds}

NextAlias ==
    \/ \E s \in SessionIds, username \in LoginNames :
          login(s, username, RegisteredPassword(user_by_primary_username(username)))
    \/ \E s \in SessionIds : create_checkout_session(s, TRUE, FALSE)
    \/ \E event \in SubscriptionEvents : stripe_webhook(event)
    \/ \E s \in SessionIds, given \in AliasInputs : add_secondary_username(s, given)
    \/ \E username \in AliasInputs \cup LoginNames, content \in HelloInputs, iv \in IVs :
          submit_message(username, TRUE, content, TRUE, TRUE, TRUE, iv)

SpecAlias == InitAccount /\ [][NextAlias]_vars

\* C22: a SecondaryUser is created only by add_secondary_username, for the
\* user of the session and only when that user's has_paid is true at that
\* request; and submit_message stores a Message for a secondary username only
\* when the has_paid of the secondary username's owner is true at that request.
C22_secondary_needs_paid ==
    [][/\ secondary_users \subseteq secondary_users'
       /\ \A a \in secondary_users' \ secondary_users :
             /\ last'.op = "add_secondary_username"
             /\ a.user_id = sessions[last'.session].user_id
             /\ users[a.user_id].has_paid
       /\ (last'.op = "submit_message" /\ messages' # messages) =>
             LET message == messages'[Len(messages')]
             IN  message.secondary_user_id # 0 =>
                    /\ users[message.user_id].has_paid
                    /\ \E a \in secondary_users :
                          a.id = message.secondary_user_id /\ a.user_id = message.user_id
      ]_vars

\* a message is stored for a secondary username of a user who has paid; the
\* other user has not paid and has no secondary username
C22_witness ==
    /\ last.op = "submit_message" /\ last.stored
    /\ Len(messages) = 1
    /\ messages[1].secondary_user_id # 0
    /\ users[messages[1].user_id].has_paid
    /\ \E u \in AccountIds :
          ~users[u].has_paid /\ \A a \in secondary_users : a.user_id # u

----------------------------------------------------------------------------
(* register with an invite code, two requests at a time (app.py 404-438) *)

\* "carol"
Carol == <<99, 97, 114, 111, 108>>

\* the usernames the registration form carries
RegisterNames == {Alice, Bob, Carol}

\* app.py 414-421: InviteCode.query.filter_by(code=..., used=False).first()
\* and the expiration test; code 0 is a code that is not in the table
invite_code_valid(code) ==
    /\ code \in DOMAIN invite_codes
    /\ ~invite_codes[code].used
    /\ ~invite_codes[code].expired

\* app.py 404-432: POST /register with a valid form, as far as the commit: the
\* invite code and the username are read, the new User is built; a request
\* that is redirected ends here
register_begin(r, username, password, code, iv) ==
    /\ requests[r].pc = "idle"
    /\ LET ok == /\ invite_code_valid(code)
                 /\ user_by_primary_username(username) = 0
       IN  IF ok
           THEN /\ requests' = [requests EXCEPT ![r] =
                      [NoRequest EXCEPT !.pc = "assigned", !.kind = "register",
                                        !.target = code,
                                        !.user_row = register(0, username, password, iv)]]
                /\ UNCHANGED last
           ELSE /\ last' = [NoCall EXCEPT !.op = "register", !.request = r,
                                          !.value = username, !.code = code]
                /\ UNCHANGED requests
    /\ UNCHANGED <<users, secondary_users, field_values, messages, codec, pad, sessions,
                   checkouts, invite_codes>>

\* the id the database gives the next User
next_user_id ==
    1 + CHOOSE n \in DOMAIN users : \A u \in DOMAIN users : u <= n

\* app.py 430-433: db.session.add(new_user), invite_code.used = True,
\* db.session.commit(); the commit fails, and writes nothing, when the
\* username was taken in the meantime (primary_username is unique, app.py 148)
register_commit(r) ==
    /\ requests[r].pc = "assigned"
    /\ requests[r].kind = "register"
    /\ LET mine == requests[r]
           new == next_user_id
           ok == user_by_primary_username(mine.user_row.primary_username) = 0
       IN  /\ users' =
                IF ~ok THEN users
                ELSE [u \in DOMAIN users \cup {new} |->
                        IF u = new THEN [mine.user_row EXCEPT !.id = new] ELSE users[u]]
           /\ invite_codes' =
                IF ~ok THEN invite_codes
                ELSE [invite_codes EXCEPT ![mine.target].used = TRUE]
           /\ last' = [NoCall EXCEPT !.op = "register", !.request = r,
                                     !.value = mine.user_row.primary_username,
                                     !.code = mine.target, !.passed = ok,
                                     !.user = IF ok THEN new ELSE 0]
    /\ requests' = [requests EXCEPT ![r] = NoRequest]
    /\ UNCHANGED <<secondary_users, field_values, messages, codec, pad, sessions,
                   checkouts>>

NextRegister ==
    \/ \E r \in RequestIds, username \in RegisterNames, code \in InviteIds \cup {0},
          iv \in IVs :
            register_begin(r, username, RegisteredPassword(1), code, iv)
    \/ \E r \in RequestIds : register_commit(r)

SpecRegister == Init /\ [][NextRegister]_vars

\* C23: a user is created only by a register request whose invite code is
\* unused and unexpired when the user is committed, and the commit marks the
\* code used; so no code creates two users.
C23_one_user_per_code ==
    [][(DOMAIN users' # DOMAIN users) =>
          /\ last'.op = "register"
          /\ last'.code \in DOMAIN invite_codes
          /\ ~invite_codes[last'.code].used
          /\ ~invite_codes[last'.code].expired
          /\ invite_codes'[last'.code].used
          /\ Cardinality(DOMAIN users') = Cardinality(DOMAIN users) + 1
      ]_vars

----------------------------------------------------------------------------
(* Changing the username (app.py 237-243, 726-743, 849-883) *)

\* app.py 344: Length(min=4, max=25) of ChangeUsernameForm.new_username
MIN_USERNAME == 4
MAX_USERNAME == 25

\* app.py 342-345: change_username_form.validate_on_submit()
ChangeUsernameForm_validate(new_username) ==
    Len(new_username) >= MIN_USERNAME /\ Len(new_username) <= MAX_USERNAME

\* a method that assigns the column primary_username
User_update_username_column(self, new_username) ==
    [self EXCEPT !.primary_username = new_username, !.is_verified = FALSE]

\* app.py 237-243: User.update_username assigns self.username, which is not a
\* column of User (app.py 145-162): of this assignment nothing is stored; then
\* it clears is_verified
User_update_username(self, new_username) ==
    [self EXCEPT !.is_verified = FALSE]

\* app.py 689-698, 726-743 under require_2fa: POST /settings with the
\* change-username form; passed: "Username changed successfully." was flashed
settings_change_username(s, new_username) ==
    /\ LET session == sessions[s]
           u == session.user_id
           ok == /\ require_2fa(session)
                 /\ ChangeUsernameForm_validate(new_username)
                 /\ user_by_primary_username(new_username) = 0
       IN  /\ users' = IF ~ok THEN users
                       ELSE [users EXCEPT ![u] = User_update_username(@, new_username)]
           /\ sessions' = IF ~ok THEN sessions
                          ELSE [sessions EXCEPT ![s].username = new_username]
           /\ last' = [NoCall EXCEPT !.op = "settings_change_username", !.session = s,
                                     !.value = new_username, !.user = u, !.passed = ok]
    /\ UNCHANGED <<secondary_users, field_values, messages, codec, pad, requests,
                   checkouts, invite_codes>>

\* app.py 849-883 under require_2fa: POST /change-username
change_username(s, new_username) ==
    /\ LET session == sessions[s]
           u == session.user_id
           ok == /\ require_2fa(session)
                 /\ Len(new_username) > 0
                 /\ users[u].primary_username # new_username
                 /\ user_by_primary_username(new_username) = 0
       IN  /\ users' = IF ~ok THEN users
                       ELSE [users EXCEPT ![u].primary_username = new_username]
           /\ sessions' = IF ~ok THEN sessions
                          ELSE [sessions EXCEPT ![s].primary_username = new_username]
           /\ last' = [NoCall EXCEPT !.op = "change_username", !.session = s,
                                     !.value = new_username, !.user = u, !.passed = ok]
    /\ UNCHANGED <<secondary_users, field_values, messages, codec, pad, requests,
                   checkouts, invite_codes>>

\* app.py 158: the operator of the site marks an account as verified
User_is_verified_set(u) ==
    /\ ~users[u].is_verified
    /\ users' = [users EXCEPT ![u].is_verified = TRUE]
    /\ last' = [NoCall EXCEPT !.op = "verify_account", !.user = u]
    /\ UNCHANGED <<secondary_users, field_values, messages, codec, pad, sessions,
                   requests, checkouts, invite_codes>>

\* the names the username forms carry: "carol", "bob", "al", ""
NewNameInputs == {Carol, Bob, <<97, 108>>, <<>>}

\* a validly signed checkout.session.completed event for each account
CompletedEvents == {e \in SubscriptionEvents : e.type = "checkout.session.completed"}

NextNames ==
    \/ \E s \in SessionIds : login(s, Alice, RegisteredPassword(1))
    \/ \E s \in SessionIds : create_checkout_session(s, TRUE, FALSE)
    \/ \E event \in CompletedEvents : stripe_webhook(event)
    \/ \E s \in SessionIds, given \in NewNameInputs : add_secondary_username(s, given)
    \/ \E s \in SessionIds, new_username \in NewNameInputs :
          settings_change_username(s, new_username)
    \/ \E s \in SessionIds, new_username \in NewNameInputs :
          change_username(s, new_username)
    \/ \E u \in AccountIds : User_is_verified_set(u)
    \/ \E r \in RequestIds, code \in InviteIds, iv \in IVs :
          register_begin(r, Carol, RegisteredPassword(1), code, iv)
    \/ \E r \in RequestIds : register_commit(r)

SpecNames == InitAccount /\ [][NextNames]_vars

\* C24: no name is at once the primary username of a user and a secondary
\* username.
C24_names_disjoint ==
    \A u \in DOMAIN users, a \in secondary_users :
        users[u].primary_username # a.username

\* C25: after a change-username submission on the settings page that
\* reported success, the stored primary username of the user is the new one
\* and the user is not verified.
C25_settings_username_stored ==
    (last.op = "settings_change_username" /\ last.passed) =>
        /\ users[last.user].primary_username = last.value
        /\ ~users[last.user].is_verified

----------------------------------------------------------------------------
(* submit_message in two steps: the commit of the Message, then the
   notification (app.py 976-1001, 1014-1040) *)

\* app.py 154: user.smtp_port = port, committed
User_smtp_port_set(u, port) ==
    /\ users' = [users EXCEPT ![u].smtp_port = port]
    /\ last' = [NoCall EXCEPT !.op = "set_column", !.column = "smtp_port", !.user = u]
    /\ UNCHANGED <<secondary_users, field_values, messages, codec, pad, sessions,
                   requests, checkouts, invite_codes>>

\* app.py 918-985: POST /submit_message/<username> as far as
\* db.session.commit(); a request that is redirected before ends here
submit_message_commit(r, username, content, iv) ==
    /\ requests[r].pc = "idle"
    /\ Len(messages) < MaxMessages
    /\ LET who == resolve_username(username)
           body == IF who.found /\ MessageForm_validate(TRUE, content)
                   THEN email_content(content, User_pgp_key(users[who.user]), TRUE, TRUE)
                   ELSE None
       IN  IF body = None
           THEN /\ last' = [NoCall EXCEPT !.op = "submit_message", !.request = r,
                                          !.value = content]
                /\ UNCHANGED <<messages, requests>>
           ELSE /\ messages' = Append(messages,
                       [id |-> next_message_id, _content |-> encrypt_field(body, iv),
                        user_id |-> who.user,
                        secondary_user_id |-> who.secondary_user_id])
                /\ requests' = [requests EXCEPT ![r] =
                       [NoRequest EXCEPT !.pc = "committed", !.kind = "submit_message",
                                         !.target = next_message_id, !.value = body,
                                         !.user_row = users[who.user]]]
                /\ last' = [NoCall EXCEPT !.op = "submit_message_commit", !.request = r]
    /\ UNCHANGED <<users, secondary_users, field_values, codec, pad, sessions,
                   checkouts, invite_codes>>

\* app.py 987-1001, 1014-1040: the rest of the request: send_email when the
\* five settings are set; smtp_ok: whether the SMTP server takes the message.
\* send_email catches what smtplib raises and returns False
submit_message_notify(r, smtp_ok) ==
    /\ requests[r].pc = "committed"
    /\ LET mine == requests[r]
           user == users[mine.user_row.id]
       IN  last' = [NoCall EXCEPT
                       !.op = "submit_message", !.request = r, !.value = mine.value,
                       !.user = user.id, !.stored = TRUE, !.code = mine.target,
                       !.email = IF ~smtp_configured(user) THEN "none"
                                 ELSE IF smtp_ok THEN "sent" ELSE "failed"]
    /\ requests' = [requests EXCEPT ![r] = NoRequest]
    /\ UNCHANGED <<users, secondary_users, field_values, messages, codec, pad, sessions,
                   checkouts, invite_codes>>

\* the ports the SMTP form carries: not set, 25
PortInputs == {0, 25}

NextNotify ==
    \/ \E u \in UserIds, value \in ColumnInputs, iv \in IVs :
          \/ User_email_set(u, value, iv)
          \/ User_smtp_server_set(u, value, iv)
          \/ User_smtp_username_set(u, value, iv)
          \/ User_smtp_password_set(u, value, iv)
    \/ \E u \in UserIds, port \in PortInputs : User_smtp_port_set(u, port)
    \/ \E r \in RequestIds, username \in UsernameInputs, content \in HelloInputs \cup {<<>>},
          iv \in IVs :
            submit_message_commit(r, username, content, iv)
    \/ \E r \in RequestIds, smtp_ok \in BOOLEAN : submit_message_notify(r, smtp_ok)

SpecNotify == Init /\ [][NextNotify]_vars

\* C26: when submit_message attempts an email, its Message is already
\* committed, the user's email, SMTP server, port, username and password are
\* all set, and the attempt, delivered or failed, leaves the stored messages
\* as they are.
C26_commit_before_email ==
    [][(last'.op = "submit_message" /\ last'.email # "none") =>
          /\ requests[last'.request].pc = "committed"
          /\ \E i \in 1..Len(messages) :
                /\ messages[i].id = last'.code
                /\ decrypt_field(messages[i]._content) = last'.value
          /\ LET user == users[last'.user]
             IN  /\ truthy(decrypt_field(user._email))
                 /\ truthy(decrypt_field(user._smtp_server))
                 /\ user.smtp_port # 0
                 /\ truthy(decrypt_field(user._smtp_username))
                 /\ truthy(decrypt_field(user._smtp_password))
          /\ messages' = messages
      ]_vars

\* the email of a stored message could not be delivered and the message is
\* still stored
C26_witness ==
    /\ last.op = "submit_message"
    /\ last.email = "failed"
    /\ Len(messages) = 1
    /\ messages[1].id = last.code
    /\ decrypt_field(messages[1]._content) = <<104, 101, 108, 108, 111>>

----------------------------------------------------------------------------
(* Reading back what a FieldValue set has stored (Spec) *)

\* C27: after a FieldValue set or construction that returns without raising,
\* the get of the same FieldValue returns a value: it does not end in the
\* InvalidToken of the symmetric decryption.
C27_get_after_set_decrypts ==
    (last.op \in {"init", "set"} /\ last.raised = NoError) =>
        FieldValue_value(LastRow) # InvalidToken

====
